---- MODULE Spec2Model ----
(***************************************************************************)
(* A model of silog's Handler: the derivation operations, the formatting   *)
(* of one record into one block of bytes, the buffer pool, and the         *)
(* synchronized write to the output writer.                                *)
(*                                                                         *)
(* Text is a sequence of one-character strings.  Go slices are modelled    *)
(* as a header (array, len) over a heap of backing arrays, so that         *)
(* aliasing between handlers, formatters and pooled buffers is explicit.   *)
(***************************************************************************)
EXTENDS Integers, Sequences, FiniteSets, TLC

VARIABLES
    handlers,   \* every *Handler allocated so far, by address 1..Len(handlers)
    origin,     \* per handler: how it was made, and what it held when it was made
    mem,        \* the heap: backing arrays, mutexes, and the buffer pool
    out,        \* per io.Writer: the chunks it received, in order
    writes,     \* per Handle call: the calls of Write it made, with argument and result
    returned,   \* per Handle call: its handler and record, the calls of the hook it
                \* made, and its result once it returned
    gor,        \* per goroutine: where it is in Handle
    calls,      \* number of Handle calls started
    lastCall    \* the call of Enabled just made, with its result

vars == <<handlers, origin, mem, out, writes, returned, gor, calls, lastCall>>

(***************************************************************************)
(* Constants of the program                                                *)
(***************************************************************************)
timeDelim    == <<" ">>
lvlDelim     == <<" ">>
groupDelim   == <<".">>
msgAttrDelim == <<" ", " ">>
attrDelim    == <<" ">>
indent       == <<" ", " ">>

NL == "\n"
CR == "\r"
SP == " "

LevelDebug == -4
LevelInfo  == 0
LevelWarn  == 4
LevelError == 8

TimeKey  == <<"t", "i", "m", "e">>
LevelKey == <<"l", "e", "v", "e", "l">>

BufCap == 1024

(***************************************************************************)
(* Small helpers on sequences                                              *)
(***************************************************************************)
Last(s) == s[Len(s)]

Range(s) == {s[k] : k \in DOMAIN s}

Max(a, b) == IF a >= b THEN a ELSE b

RECURSIVE Flatten(_)
Flatten(ss) == IF ss = <<>> THEN <<>> ELSE Head(ss) \o Flatten(Tail(ss))

\* bytes.TrimRight(s, cutset) / strings.TrimRight
RECURSIVE TrimRight(_, _)
TrimRight(s, cutset) ==
    IF s # <<>> /\ Last(s) \in cutset
    THEN TrimRight(SubSeq(s, 1, Len(s) - 1), cutset)
    ELSE s

\* bytes.ContainsAny
ContainsAny(s, chars) == \E i \in 1..Len(s) : s[i] \in chars

\* strings.Lines / bytes.Lines: the lines of s, each with its terminating
\* "\n" if it has one; the empty text has no lines.
RECURSIVE LinesFrom(_, _)
LinesFrom(s, cur) ==
    IF s = <<>>
    THEN IF cur = <<>> THEN <<>> ELSE <<cur>>
    ELSE IF Head(s) = NL
         THEN <<Append(cur, NL)>> \o LinesFrom(Tail(s), <<>>)
         ELSE LinesFrom(Tail(s), Append(cur, Head(s)))

Lines(s) == LinesFrom(s, <<>>)

(***************************************************************************)
(* lipgloss styles, as far as the handler uses them: a style may carry a   *)
(* string of its own (SetString) and may decorate what it renders.         *)
(***************************************************************************)
ResetSeq == "<ESC[0m>"

NoStyle == [value |-> <<>>, fx |-> <<>>]

SetString(sty, str) == [sty EXCEPT !.value = str]

Fx(token) == [value |-> <<>>, fx |-> <<token>>]

\* strings.Join(strs, " ")
RECURSIVE JoinSp(_)
JoinSp(strs) ==
    IF strs = <<>> THEN <<>>
    ELSE IF Len(strs) = 1 THEN Head(strs)
    ELSE Head(strs) \o <<SP>> \o JoinSp(Tail(strs))

\* lipgloss.Style.Render(strs...): the style's own string comes first, the
\* pieces are joined by a space, and the decoration wraps the result.
Render(sty, strs) ==
    LET all == IF sty.value # <<>> THEN <<sty.value>> \o strs ELSE strs
        str == JoinSp(all)
    IN  IF sty.fx = <<>> THEN str ELSE sty.fx \o str \o <<ResetSeq>>

\* lipgloss.Style.String()
StyleString(sty) == Render(sty, <<>>)

\* m[k] of a Go map of styles: the zero Style when the key is absent
MapGet(m, k) == IF k \in DOMAIN m THEN m[k] ELSE NoStyle

HasKey(m, k) == k \in DOMAIN m

ErrorKey == <<"e", "r", "r", "o", "r">>

PlainStyle ==
    [ Key                  |-> NoStyle,
      KeyValueDelimiter    |-> SetString(NoStyle, <<"=">>),
      MultilineValuePrefix |-> SetString(NoStyle, <<" ", " ", "|", " ">>),
      Time                 |-> NoStyle,
      PrefixDelimiter      |-> SetString(NoStyle, <<":", " ">>),
      LevelLabels          |-> (LevelDebug :> SetString(NoStyle, <<"D", "B", "G">>))
                            @@ (LevelInfo  :> SetString(NoStyle, <<"I", "N", "F">>))
                            @@ (LevelWarn  :> SetString(NoStyle, <<"W", "R", "N">>))
                            @@ (LevelError :> SetString(NoStyle, <<"E", "R", "R">>)),
      Messages             |-> <<>>,
      Values               |-> <<>> ]

DefaultStyle ==
    [ Key                  |-> Fx("<ESC[2m>"),
      KeyValueDelimiter    |-> SetString(Fx("<ESC[2m>"), <<"=">>),
      MultilineValuePrefix |-> SetString(Fx("<ESC[2m>"), <<"|", " ">>),
      Time                 |-> Fx("<ESC[2m>"),
      PrefixDelimiter      |-> SetString(NoStyle, <<":", " ">>),
      LevelLabels          |-> (LevelDebug :> SetString(NoStyle, <<"D", "B", "G">>))
                            @@ (LevelInfo  :> SetString(Fx("<ESC[92m>"), <<"I", "N", "F">>))
                            @@ (LevelWarn  :> SetString(Fx("<ESC[93m>"), <<"W", "R", "N">>))
                            @@ (LevelError :> SetString(Fx("<ESC[91m>"), <<"E", "R", "R">>)),
      Messages             |-> (LevelDebug :> Fx("<ESC[2m>")),
      Values               |-> (ErrorKey :> Fx("<ESC[91m>")) ]

(***************************************************************************)
(* slog values, attributes and records                                     *)
(*   Kind "String": V is the text;  Kind "Time": V = <<t>>, t = 0 the zero *)
(*   time;  Kind "Group": V is the sequence of member attributes;          *)
(*   Kind "Any": dyn names the dynamic type held ("nil" or "Level");       *)
(*   Kind "LogValuer": V = <<v>>, v the value LogValue() returns.          *)
(***************************************************************************)
StringValue(s) == [Kind |-> "String", dyn |-> "", V |-> s]
TimeValue(t)   == [Kind |-> "Time",   dyn |-> "", V |-> <<t>>]
GroupValue(as) == [Kind |-> "Group",  dyn |-> "", V |-> as]
AnyLevel(l)    == [Kind |-> "Any", dyn |-> "Level", V |-> <<l>>]
NilValue       == [Kind |-> "Any", dyn |-> "nil",   V |-> <<>>]
LogValuerValue(v) == [Kind |-> "LogValuer", dyn |-> "", V |-> <<v>>]

\* slog.Value.Resolve: LogValue is called until the value is no LogValuer
RECURSIVE Resolve(_)
Resolve(v) == IF v.Kind = "LogValuer" THEN Resolve(v.V[1]) ELSE v

Attr(k, v) == [Key |-> k, Value |-> v]

\* slog.Attr{}
EmptyAttr == Attr(<<>>, NilValue)

\* slog.Value.Equal, slog.Attr.Equal
ValueEqual(v, w) == v.Kind = w.Kind /\ v.dyn = w.dyn /\ v.V = w.V

AttrEqual(a, b) == a.Key = b.Key /\ ValueEqual(a.Value, b.Value)

\* time.Time.Format for the two layouts the model uses, on the instants 1, 2
Kitchen(t) ==
    IF t = 1 THEN <<"9", ":", "4", "5", "A", "M">>
    ELSE <<"9", ":", "0", "0", "P", "M">>

RFC3339(t) ==
    IF t = 1 THEN <<"2", "5", "-", "0", "6", "-", "1", "5", "T", "0", "9", ":", "4", "5", "Z">>
    ELSE <<"2", "5", "-", "0", "5", "-", "2", "0", "T", "2", "1", ":", "0", "0", "Z">>

TimeFormat(t, layout) == IF layout = "Kitchen" THEN Kitchen(t) ELSE RFC3339(t)

\* time.Time.String(): yet another layout
TimeString(t) == RFC3339(t) \o <<" ", "U", "T", "C">>

\* strconv.Itoa for the small numbers of the model
Digit(n) == <<"0", "1", "2", "3", "4", "5", "6", "7", "8", "9">>[n + 1]

RECURSIVE Itoa(_)
Itoa(n) == IF n < 10 THEN <<Digit(n)>> ELSE Itoa(n \div 10) \o <<Digit(n % 10)>>

\* slog.Level.String()
LevelStr(base, val) ==
    IF val = 0 THEN base
    ELSE base \o (IF val > 0 THEN <<"+">> \o Itoa(val) ELSE <<"-">> \o Itoa(-val))

LevelString(l) ==
    IF l < LevelInfo THEN LevelStr(<<"D", "E", "B", "U", "G">>, l - LevelDebug)
    ELSE IF l < LevelWarn THEN LevelStr(<<"I", "N", "F", "O">>, l - LevelInfo)
    ELSE IF l < LevelError THEN LevelStr(<<"W", "A", "R", "N">>, l - LevelWarn)
    ELSE LevelStr(<<"E", "R", "R", "O", "R">>, l - LevelError)

\* slog.Value.String()
ValueString(v) ==
    CASE v.Kind = "String" -> v.V
      [] v.Kind = "Time"   -> TimeString(v.V[1])
      [] v.Kind = "Any" /\ v.dyn = "Level" -> LevelString(v.V[1])
      [] v.Kind = "Any" /\ v.dyn = "nil"   -> <<"<", "n", "i", "l", ">">>
      [] OTHER -> <<>>

\* HandlerOptions.ReplaceAttr: the hooks the model configures.
\* "nil" is no hook, and is never called.
\* "skipTime" and "skipLevel" drop the time and the level, "fixed" gives
\* another time and another level, "asText" gives a text for either.
\* "edit" drops the attributes c and n, gives r=z for d, and gives e=w for
\* an e that sits directly in a group h.
ReplaceAttr(hook, groups, attr) ==
    CASE hook = "identity" -> attr
      [] hook = "skipTime" ->
            IF Len(groups) = 0 /\ attr.Key = TimeKey THEN EmptyAttr ELSE attr
      [] hook = "skipLevel" ->
            IF Len(groups) = 0 /\ attr.Key = LevelKey THEN EmptyAttr ELSE attr
      [] hook = "fixed" ->
            IF Len(groups) = 0 /\ attr.Key = TimeKey THEN Attr(TimeKey, TimeValue(2))
            ELSE IF Len(groups) = 0 /\ attr.Key = LevelKey
            THEN Attr(LevelKey, AnyLevel(LevelWarn))
            ELSE attr
      [] hook = "asText" ->
            IF Len(groups) = 0 /\ attr.Key = TimeKey
            THEN Attr(TimeKey, StringValue(<<"T">>))
            ELSE IF Len(groups) = 0 /\ attr.Key = LevelKey
            THEN Attr(LevelKey, StringValue(<<"L">>))
            ELSE attr
      [] hook = "edit" ->
            IF attr.Key \in {<<"c">>, <<"n">>} THEN EmptyAttr
            ELSE IF attr.Key = <<"d">> THEN [Key |-> <<"r">>, Value |-> StringValue(<<"z">>)]
            ELSE IF attr.Key = <<"e">> /\ groups # <<>> /\ Last(groups) = <<"h">>
            THEN [Key |-> <<"e">>, Value |-> StringValue(<<"w">>)]
            ELSE attr
      [] OTHER -> attr

(***************************************************************************)
(* Go slices over a heap of backing arrays.                                *)
(*   An array is [cap, data]: data holds what has been written so far.     *)
(*   A slice is [arr, len]; the nil slice has no array.                    *)
(*   Arrays are named <<arena, n>>: the arena only names who allocated     *)
(*   ("hb"/"hs": bytes/strings allocated while deriving a handler,         *)
(*   "pb": pooled byte buffers, "fs": a formatter's group stack).          *)
(***************************************************************************)
NilArr == <<"nil", 0>>

NilSlice == [arr |-> NilArr, len |-> 0]

NoOne == "none"

\* mu: per sync.Mutex allocated, the goroutine holding it, or NoOne;
\* hooked: the calls of the ReplaceAttr hook the running operation has made
EmptyMem ==
    [ bytes |-> <<>>, strs |-> <<>>, pool |-> <<>>, mu |-> <<>>,
      next |-> [hb |-> 0, pb |-> 0, hs |-> 0, fs |-> 0],
      hooked |-> <<>> ]

SliceVal(hp, s) == IF s.arr = NilArr THEN <<>> ELSE SubSeq(hp[s.arr].data, 1, s.len)

CapOf(hp, s) == IF s.arr = NilArr THEN 0 ELSE hp[s.arr].cap

\* data with xs written after its first `at` elements
Overwrite(data, at, xs) ==
    SubSeq(data, 1, at) \o xs \o SubSeq(data, at + Len(xs) + 1, Len(data))

\* append(s, xs...): in place when the capacity allows, else into a fresh
\* array `fresh` of capacity newcap.
GoAppend(hp, fresh, s, xs, newcap) ==
    IF xs = <<>> THEN [hp |-> hp, s |-> s, alloc |-> FALSE]
    ELSE IF s.len + Len(xs) <= CapOf(hp, s)
    THEN [ hp    |-> [hp EXCEPT ![s.arr].data = Overwrite(@, s.len, xs)],
           s     |-> [s EXCEPT !.len = @ + Len(xs)],
           alloc |-> FALSE ]
    ELSE [ hp    |-> (fresh :> [cap |-> newcap, data |-> SliceVal(hp, s) \o xs]) @@ hp,
           s     |-> [arr |-> fresh, len |-> s.len + Len(xs)],
           alloc |-> TRUE ]

\* the runtime's size classes, for byte arrays
RoundUpSize(n) ==
    IF n <= 8 THEN 8
    ELSE IF n <= 32 THEN ((n + 7) \div 8) * 8
    ELSE ((n + 15) \div 16) * 16

GrowCap(old, need) == IF need > 2 * old THEN need ELSE 2 * old

\* the heap after an append r into an array of the arena, and the slice
Grown(m, arena, kind, r) ==
    [ m |-> [m EXCEPT ![kind] = r.hp,
                      !.next[arena] = IF r.alloc THEN @ + 1 ELSE @],
      s |-> r.s ]

BytesAppend(m, arena, s, xs) ==
    Grown(m, arena, "bytes",
          GoAppend(m.bytes, <<arena, m.next[arena] + 1>>, s, xs,
                   RoundUpSize(GrowCap(CapOf(m.bytes, s), s.len + Len(xs)))))

StrsAppend(m, arena, s, xs) ==
    Grown(m, arena, "strs",
          GoAppend(m.strs, <<arena, m.next[arena] + 1>>, s, xs,
                   GrowCap(CapOf(m.strs, s), s.len + Len(xs))))

\* slices.Clone: append(S{}, s...)
BytesClone(m, arena, s) == BytesAppend(m, arena, NilSlice, SliceVal(m.bytes, s))

StrsClone(m, arena, s) == StrsAppend(m, arena, NilSlice, SliceVal(m.strs, s))

\* A formatter's group stack is garbage once its call has returned, and the
\* calls of the hook are those of the call that made them.
DropLocals(m) ==
    [m EXCEPT !.strs = [id \in {i \in DOMAIN m.strs : i[1] # "fs"} |-> m.strs[id]],
              !.next.fs = 0,
              !.hooked = <<>>]

(***************************************************************************)
(* The buffer pool.  sync.Pool hands back what was put last, or New.       *)
(***************************************************************************)
NewBuf(m, id) ==
    [ m   |-> [m EXCEPT !.bytes = (id :> [cap |-> BufCap, data |-> <<>>]) @@ @,
                        !.next.pb = @ + 1],
      buf |-> [arr |-> id, len |-> 0] ]

\* a takeBuf that hands the buffer out at the length it came back with
takeBufUncut(m) ==
    IF m.pool = <<>>
    THEN NewBuf(m, <<"pb", m.next.pb + 1>>)
    ELSE [ m   |-> [m EXCEPT !.pool = Tail(@)],
           buf |-> Head(m.pool) ]

takeBuf(m) ==
    IF m.pool = <<>>
    THEN NewBuf(m, <<"pb", m.next.pb + 1>>)
    ELSE [ m   |-> [m EXCEPT !.pool = Tail(@)],
           buf |-> [Head(m.pool) EXCEPT !.len = 0] ]

releaseBuf(m, bs) == [m EXCEPT !.pool = <<bs>> \o @]

(***************************************************************************)
(* attrFormatter                                                           *)
(*   f = [m, buf, style, groups, replaceAttr], with the heap m it works    *)
(*   on, the arena that names an array allocated when buf outgrows its     *)
(*   capacity, and valbs, the buffer FormatAttr serializes a value into.   *)
(***************************************************************************)
\* f.buf = append(f.buf, xs...)
Appended(f, r) == [f EXCEPT !.m = r.m, !.buf = r.s]

Put(f, xs) == Appended(f, BytesAppend(f.m, f.arena, f.buf, xs))

\* a prefix that gives every group its ".", the unnamed ones too
RECURSIVE EveryGroupPrefix(_, _)
EveryGroupPrefix(style, groups) ==
    IF groups = <<>> THEN <<>>
    ELSE Render(style.Key, <<Head(groups)>>) \o groupDelim
         \o EveryGroupPrefix(style, Tail(groups))

\* the text formatKey appends: the non-empty groups, each with a ".", then the key
RECURSIVE GroupPrefix(_, _)
GroupPrefix(style, groups) ==
    IF groups = <<>> THEN <<>>
    ELSE (IF Head(groups) # <<>>
          THEN Render(style.Key, <<Head(groups)>>) \o groupDelim
          ELSE <<>>) \o GroupPrefix(style, Tail(groups))

formatKey(f, key) ==
    Put(f, GroupPrefix(f.style, SliceVal(f.m.strs, f.groups))
               \o Render(f.style.Key, <<key>>))

\* the switch on value.Kind(): the text of a value that is not a group
Serialize(value) ==
    CASE value.Kind = "String" -> value.V
      [] value.Kind = "Time"   -> Kitchen(value.V[1])
      [] OTHER                 -> ValueString(value)

\* valbs := *takeBuf(), and the switch that appends the value's text to it
Serialized(f, r) == [f EXCEPT !.m = r.m, !.valbs = r.s]

Taken(f, tb, value) ==
    Serialized(f, BytesAppend(tb.m, "pb", tb.buf, Serialize(value)))

TakeValbs(f, value) == Taken(f, takeBuf(f.m), value)

Valbs(f) == SliceVal(f.m.bytes, f.valbs)

\* defer releaseBuf(&valbs)
ReleaseValbs(f) == [f EXCEPT !.m = releaseBuf(f.m, f.valbs), !.valbs = NilSlice]

\* a delimiter that is a space behind everything but the start of the buffer
DelimiterSpace(buf) == IF Len(buf) > 0 THEN attrDelim ELSE <<>>

\* the delimiter between attributes
Delimiter(buf) ==
    IF Len(buf) > 0
    THEN IF Last(buf) = NL THEN indent
         ELSE IF Last(buf) # SP THEN attrDelim
         ELSE <<>>
    ELSE <<>>

PutDelimiter(f) == Put(f, Delimiter(SliceVal(f.m.bytes, f.buf)))

isMultiline(valbs) == ContainsAny(valbs, {CR, NL})

\* a multi-line value starts on a line of its own; then the key and "="
PutKey(f, key) ==
    Put(formatKey(Put(f, IF isMultiline(Valbs(f)) THEN <<NL>> \o indent ELSE <<>>),
                  key),
        StyleString(f.style.KeyValueDelimiter))

\* a body that leaves out the lines of the value that hold no text
RECURSIVE BodyWithoutBlanks(_, _, _, _)
BodyWithoutBlanks(lines, prefix, hasStyle, valueStyle) ==
    IF lines = <<>> THEN <<>>
    ELSE (IF TrimRight(Head(lines), {CR, NL}) = <<>> THEN <<>>
          ELSE prefix
               \o (IF hasStyle
                   THEN Render(valueStyle, <<TrimRight(Head(lines), {CR, NL})>>)
                   ELSE TrimRight(Head(lines), {CR, NL}))
               \o <<NL>>)
         \o BodyWithoutBlanks(Tail(lines), prefix, hasStyle, valueStyle)

\* the lines of a multi-line value, each behind the prefix and ended by "\n"
RECURSIVE MultilineBody(_, _, _, _)
MultilineBody(lines, prefix, hasStyle, valueStyle) ==
    IF lines = <<>> THEN <<>>
    ELSE prefix
         \o (IF hasStyle
             THEN Render(valueStyle, <<TrimRight(Head(lines), {CR, NL})>>)
             ELSE TrimRight(Head(lines), {CR, NL}))
         \o <<NL>>
         \o MultilineBody(Tail(lines), prefix, hasStyle, valueStyle)

EndedByNewline(b) == IF Last(b) # NL THEN b \o <<NL>> ELSE b

MultilinePrefix(style, hasStyle, valueStyle) ==
    indent \o StyleString(IF hasStyle
                          THEN [style.MultilineValuePrefix EXCEPT !.fx = valueStyle.fx]
                          ELSE style.MultilineValuePrefix)

\* the value as it goes behind "="
ValueBody(style, key, valbs) ==
    IF isMultiline(valbs)
    THEN EndedByNewline(
             <<NL>> \o MultilineBody(Lines(valbs),
                                     MultilinePrefix(style, HasKey(style.Values, key),
                                                     MapGet(style.Values, key)),
                                     HasKey(style.Values, key),
                                     MapGet(style.Values, key)))
    ELSE IF HasKey(style.Values, key)
    THEN Render(MapGet(style.Values, key), <<valbs>>)
    ELSE valbs

PutValue(f, key) == Put(f, ValueBody(f.style, key, Valbs(f)))

\* FormatAttr from the point where the attribute is known to be neither
\* empty nor a group.
FormatLeaf(f, attr) ==
    ReleaseValbs(PutValue(PutKey(PutDelimiter(TakeValbs(f, attr.Value)), attr.Key),
                          attr.Key))

\* f.groups = append(f.groups, key); f.groups = f.groups[:len(f.groups)-1]
Pushed(f, r) == [f EXCEPT !.m = r.m, !.groups = r.s]

PushGroup(f, key) == Pushed(f, StrsAppend(f.m, "fs", f.groups, <<key>>))

\* a formatter that leaves the key of a group on its stack
PopGroupNever(f) == f

PopGroup(f) == [f EXCEPT !.groups.len = @ - 1]

RECURSIVE FormatAttr(_, _), FormatAttrs(_, _), FormatReplaced(_, _)

\* a loop over the attributes that starts with the last one
RECURSIVE FormatAttrsBackwards(_, _)
FormatAttrsBackwards(f, as) ==
    IF as = <<>> THEN f
    ELSE FormatAttr(FormatAttrsBackwards(f, Tail(as)), Head(as))

FormatAttrs(f, as) ==
    IF as = <<>> THEN f ELSE FormatAttrs(FormatAttr(f, Head(as)), Tail(as))

\* a FormatAttr that writes the empty attribute like any other
FormatEvenEmpty(f, attr) ==
    IF attr.Value.Kind = "Group"
    THEN PopGroup(FormatAttrs(PushGroup(f, attr.Key), attr.Value.V))
    ELSE FormatLeaf(f, attr)

\* FormatAttr behind the call of the hook
FormatReplaced(f, attr) ==
    IF AttrEqual(attr, EmptyAttr) THEN f
    ELSE IF attr.Value.Kind = "Group"
    THEN PopGroup(FormatAttrs(PushGroup(f, attr.Key), attr.Value.V))
    ELSE FormatLeaf(f, attr)

\* f.replaceAttr(groups, attr) is called
Hooked(f, groups, attr) ==
    [f EXCEPT !.m.hooked = Append(@, [groups |-> groups, attr |-> attr])]

\* attr.Value = attr.Value.Resolve()
Resolved(attr) == [attr EXCEPT !.Value = Resolve(@)]

\* a FormatAttr that hands the hook only attributes that are not groups
FormatAttrLeavesHooked(f, attr) ==
    IF f.replaceAttr # "nil" /\ Resolve(attr.Value).Kind # "Group"
    THEN FormatReplaced(Hooked(f, SliceVal(f.m.strs, f.groups), Resolved(attr)),
                        ReplaceAttr(f.replaceAttr, SliceVal(f.m.strs, f.groups),
                                    Resolved(attr)))
    ELSE FormatReplaced(f, Resolved(attr))

FormatAttr(f, attr) ==
    IF f.replaceAttr # "nil"
    THEN FormatReplaced(Hooked(f, SliceVal(f.m.strs, f.groups), Resolved(attr)),
                        ReplaceAttr(f.replaceAttr, SliceVal(f.m.strs, f.groups),
                                    Resolved(attr)))
    ELSE FormatReplaced(f, Resolved(attr))

(***************************************************************************)
(* Handler                                                                 *)
(***************************************************************************)
\* new(sync.Mutex): the heap with one more mutex, unlocked
NewMutex(m) == [m |-> [m EXCEPT !.mu = Append(@, NoOne)], mu |-> Len(m.mu) + 1]

\* HandlerOptions: an unset Level or Style is <<>>, a set one is <<x>>;
\* an unset TimeFormat is "", an unset ReplaceAttr is "nil".
NewHandler(m, w, opts) ==
    [ m |-> NewMutex(m).m,
      h |-> [ lvl         |-> IF opts.Level = <<>> THEN LevelInfo ELSE opts.Level[1],
              style       |-> IF opts.Style = <<>> THEN DefaultStyle ELSE opts.Style[1],
              out         |-> w,
              outMu       |-> Len(m.mu) + 1,
              attrs       |-> NilSlice,
              groups      |-> NilSlice,
              lvlOffset   |-> 0,
              prefix      |-> <<>>,
              timeFormat  |-> IF opts.TimeFormat = "" THEN "Kitchen"
                              ELSE opts.TimeFormat,
              replaceAttr |-> opts.ReplaceAttr ] ]

\* a copy that makes a mutex of its own instead of sharing the parent's
CopyOwnMutex(m, h) ==
    [m |-> NewMutex(m).m, h |-> [h EXCEPT !.outMu = Len(m.mu) + 1]]

\* newH := *h: every field is copied; outMu and out are pointers, and the
\* slices attrs and groups are headers, so the copy shares what they point to.
CopyHandler(m, h) == [m |-> m, h |-> h]

\* an Enabled that compares the level as given, without the offset
EnabledNoOffset(h, lvl) == h.lvl <= lvl

Enabled(h, lvl) == h.lvl <= lvl + h.lvlOffset

Prefix(h) == h.prefix

LevelOffset(h) == h.lvlOffset

\* the formatter over buf, with the clone c of the handler's groups
FormatterOf(h, buf, arena, c) ==
    [ m           |-> c.m,
      buf         |-> buf,
      style       |-> h.style,
      groups      |-> c.s,
      replaceAttr |-> h.replaceAttr,
      arena       |-> arena,
      valbs       |-> NilSlice ]

\* h.attrFormatter(buf); arena names what buf grows into
attrFormatter(m, h, buf, arena) ==
    FormatterOf(h, buf, arena, StrsClone(m, "fs", h.groups))

\* newH := *h; newH.attrs = f.buf; return &newH
AttrsSet(newH, buf) == [m |-> DropLocals(newH.m), h |-> [newH.h EXCEPT !.attrs = buf]]

AttrsOf(f, h) == AttrsSet(CopyHandler(f.m, h), f.buf)

\* a WithAttrs that formats into h.attrs itself, without slices.Clone
WithAttrsInPlace(m, h, as) ==
    AttrsOf(FormatAttrs(attrFormatter(m, h, h.attrs, "hb"), as), h)

\* a WithLevel that also forgets the offset
WithLevelOnly(m, h, lvl) ==
    [m |-> m, h |-> [CopyHandler(m, h).h EXCEPT !.lvl = lvl, !.lvlOffset = 0]]

\* a formatter for WithAttrs that leaves the handler's groups out
GrouplessFormatter(c, h) ==
    attrFormatter(c.m, [h EXCEPT !.groups = NilSlice], c.s, "hb")

\* a formatter for WithAttrs that starts without the attributes of the handler
FormatterFromNothing(c, h) == attrFormatter(c.m, h, NilSlice, "hb")

\* The derivations: each returns the new handler and the heap after it.
\* f := h.attrFormatter(slices.Clone(h.attrs))
CloneFormatter(c, h) == attrFormatter(c.m, h, c.s, "hb")


WithAttrs(m, h, as) ==
    AttrsOf(FormatAttrs(CloneFormatter(BytesClone(m, "hb", h.attrs), h), as), h)

\* newH.groups = append(slices.Clone(h.groups), name)
GroupsSet(h, a) == [m |-> a.m, h |-> [h EXCEPT !.groups = a.s]]

CloneAppend(c, name) == StrsAppend(c.m, "hs", c.s, <<name>>)

GroupsOf(newH, name) ==
    GroupsSet(newH.h, CloneAppend(StrsClone(newH.m, "hs", newH.h.groups), name))

\* a WithGroup that locks the output mutex and returns with it locked
WithGroupLocked(m, h, name) ==
    [ m |-> [GroupsOf(CopyHandler(m, h), name).m EXCEPT !.mu[h.outMu] = "g2"],
      h |-> GroupsOf(CopyHandler(m, h), name).h ]

WithGroup(m, h, name) == GroupsOf(CopyHandler(m, h), name)

LevelSet(newH, lvl) == [m |-> newH.m, h |-> [newH.h EXCEPT !.lvl = lvl]]

WithLevel(m, h, lvl) == LevelSet(CopyHandler(m, h), lvl)

\* a SetPrefix that puts the new prefix behind the one there is
PrefixStacked(m, h, prefix) ==
    [m |-> m, h |-> [CopyHandler(m, h).h EXCEPT !.prefix = @ \o prefix]]

PrefixSet(newH, prefix) == [m |-> newH.m, h |-> [newH.h EXCEPT !.prefix = prefix]]

SetPrefix(m, h, prefix) == PrefixSet(CopyHandler(m, h), prefix)

\* a WithLevelOffset that assigns the offset instead of adding to it
SetLevelOffset(m, h, n) ==
    [m |-> m, h |-> [CopyHandler(m, h).h EXCEPT !.lvlOffset = n]]

OffsetAdded(newH, n) == [m |-> newH.m, h |-> [newH.h EXCEPT !.lvlOffset = @ + n]]

WithLevelOffset(m, h, n) == OffsetAdded(CopyHandler(m, h), n)

(***************************************************************************)
(* Handle, up to the point where the block is ready to be written          *)
(***************************************************************************)
\* a label that is the text of whatever the hook returned, a level included
ReplacedLevelAsText(h, attr) ==
    IF AttrEqual(attr, EmptyAttr) THEN <<>> ELSE ValueString(attr.Value)

\* the label of the level attribute the hook returned
ReplacedLevel(h, attr) ==
    IF AttrEqual(attr, EmptyAttr) THEN <<>>
    ELSE IF attr.Value.Kind = "Any" /\ attr.Value.dyn = "Level"
    THEN StyleString(MapGet(h.style.LevelLabels, attr.Value.V[1]))
    ELSE ValueString(attr.Value)

\* the level label; lvl := rec.Level + slog.Level(h.lvlOffset)
LevelLabel(h, rec) ==
    IF h.replaceAttr = "nil"
    THEN StyleString(MapGet(h.style.LevelLabels, rec.Level))
    ELSE ReplacedLevel(h, ReplaceAttr(h.replaceAttr, <<>>,
                                      Attr(LevelKey, AnyLevel(rec.Level + h.lvlOffset))))

\* the text of the time attribute the hook returned
ReplacedTime(h, timeAttr) ==
    IF AttrEqual(timeAttr, EmptyAttr) THEN <<>>
    ELSE IF timeAttr.Value.Kind = "Time"
    THEN TimeFormat(timeAttr.Value.V[1], h.timeFormat)
    ELSE ValueString(timeAttr.Value)

TimeText(h, rec) ==
    IF rec.Time = 0 THEN <<>>
    ELSE IF h.replaceAttr = "nil" THEN TimeFormat(rec.Time, h.timeFormat)
    ELSE ReplacedTime(h, ReplaceAttr(h.replaceAttr, <<>>,
                                     Attr(TimeKey, TimeValue(rec.Time))))

StyledTime(h, timeString) ==
    IF timeString # <<>> THEN Render(h.style.Time, <<timeString>>) ELSE <<>>

\* the time text
TimeLabel(h, rec) == StyledTime(h, TimeText(h, rec))

\* the message of one line: the prefix, its delimiter and the line
PrefixedLine(h, line) ==
    (IF h.prefix # <<>>
     THEN h.prefix \o StyleString(h.style.PrefixDelimiter)
     ELSE <<>>) \o line

\* a line that has the delimiter of the label also when there is no label
LabelDelimited(h, rec, timeString, lvlString, line0) ==
    (IF timeString # <<>> THEN timeString \o timeDelim ELSE <<>>)
    \o lvlString \o lvlDelim
    \o Render(MapGet(h.style.Messages, rec.Level),
              <<PrefixedLine(h, IF Last(line0) = NL
                                THEN SubSeq(line0, 1, Len(line0) - 1)
                                ELSE line0)>>)
    \o (IF Last(line0) = NL THEN <<NL>> ELSE <<>>)

\* one line of the message, behind the time, the label and the prefix
MessageLine(h, rec, timeString, lvlString, line0) ==
    (IF timeString # <<>> THEN timeString \o timeDelim ELSE <<>>)
    \o (IF lvlString # <<>> THEN lvlString \o lvlDelim ELSE <<>>)
    \o Render(MapGet(h.style.Messages, rec.Level),
              <<PrefixedLine(h, IF Last(line0) = NL
                                THEN SubSeq(line0, 1, Len(line0) - 1)
                                ELSE line0)>>)
    \o (IF Last(line0) = NL THEN <<NL>> ELSE <<>>)

\* message lines of which only the first carries the time and the label
RECURSIVE HeaderOnce(_, _, _, _, _)
HeaderOnce(h, rec, timeString, lvlString, lines) ==
    IF lines = <<>> THEN <<>>
    ELSE MessageLine(h, rec, timeString, lvlString, Head(lines))
         \o HeaderOnce(h, rec, <<>>, <<>>, Tail(lines))

RECURSIVE MessageLines(_, _, _, _, _)
MessageLines(h, rec, timeString, lvlString, lines) ==
    IF lines = <<>> THEN <<>>
    ELSE MessageLine(h, rec, timeString, lvlString, Head(lines))
         \o MessageLines(h, rec, timeString, lvlString, Tail(lines))

\* a trim that cuts trailing spaces only
TrimSpaces(m, bs) ==
    BytesAppend(m, "pb",
                [bs EXCEPT !.len = Len(TrimRight(SliceVal(m.bytes, bs), {SP}))],
                <<NL>>)

\* append(bytes.TrimRight(bs, " \n"), '\n')
TrimBlock(m, bs) ==
    BytesAppend(m, "pb",
                [bs EXCEPT !.len = Len(TrimRight(SliceVal(m.bytes, bs), {SP, NL}))],
                <<NL>>)

\* bs := *takeBuf(); the formatter is over bs
BufFormatter(tb, h) == attrFormatter(tb.m, h, tb.buf, "pb")

\* the calls of h.replaceAttr for the level and then, unless the time is
\* zero, for the time
HeadHooked(f, h, rec) ==
    IF h.replaceAttr = "nil" THEN f
    ELSE IF rec.Time = 0
    THEN Hooked(f, <<>>, Attr(LevelKey, AnyLevel(rec.Level + h.lvlOffset)))
    ELSE Hooked(Hooked(f, <<>>, Attr(LevelKey, AnyLevel(rec.Level + h.lvlOffset))),
                <<>>, Attr(TimeKey, TimeValue(rec.Time)))

\* a head that has the level label also when the message has no line
PutHeadLabelled(f, h, rec) ==
    Put(HeadHooked(f, h, rec),
        (IF Lines(rec.Message) = <<>>
         THEN LevelLabel(h, rec) \o lvlDelim
         ELSE MessageLines(h, rec, TimeLabel(h, rec), LevelLabel(h, rec),
                           Lines(rec.Message)))
        \o msgAttrDelim
        \o SliceVal(f.m.bytes, h.attrs))

\* the message lines, the delimiter and the handler's own attributes
PutHead(f, h, rec) ==
    Put(HeadHooked(f, h, rec),
        MessageLines(h, rec, TimeLabel(h, rec), LevelLabel(h, rec),
                     Lines(rec.Message))
        \o msgAttrDelim
        \o SliceVal(f.m.bytes, h.attrs))

Trimmed(f) == TrimBlock(f.m, f.buf)

Block(t) == [m |-> DropLocals(t.m), bs |-> t.s, hooked |-> t.m.hooked]

\* Handle from takeBuf to the trimmed block: the heap after it and the block
HandleFormat(m, h, rec) ==
    Block(Trimmed(FormatAttrs(PutHead(BufFormatter(takeBuf(m), h), h, rec),
                              rec.Attrs)))

(***************************************************************************)
(* The state machine                                                       *)
(***************************************************************************)
GName == <<"g1", "g2">>

Goroutines == {GName[n] : n \in DOMAIN GName}

GIndex(g) == CHOOSE n \in DOMAIN GName : GName[n] = g

Sinks == {1, 2}

NoRec == [Level |-> 0, Time |-> 0, Message |-> <<>>, Attrs |-> <<>>]

Idle == [pc |-> "idle", h |-> 0, rec |-> NoRec, bs |-> NilSlice, call |-> 0, block |-> <<>>]

\* a query: the level asked about and the answer of Enabled, the answer of
\* Prefix or of LevelOffset, and who held which mutex when it was made
NoCall ==
    [op |-> "none", h |-> 0, lvl |-> 0, ok |-> FALSE, prefix |-> <<>>, offset |-> 0,
     held |-> <<>>]

\* a handler with its slices replaced by what they hold
View(m, h) ==
    [h EXCEPT !.attrs = SliceVal(m.bytes, h.attrs),
              !.groups = SliceVal(m.strs, h.groups)]

Init ==
    /\ handlers = <<>>
    /\ origin = <<>>
    /\ mem = EmptyMem
    /\ out = [w \in Sinks |-> <<>>]
    /\ writes = <<>>
    /\ returned = <<>>
    /\ gor = [g \in Goroutines |-> Idle]
    /\ calls = 0
    /\ lastCall = NoCall

\* the handler r.h, made by op from handler p, is allocated; held keeps who
\* held which mutex while it was made
Allocate(r, op, p, arg) ==
    /\ handlers' = Append(handlers, r.h)
    /\ origin' = Append(origin, [op |-> op, parent |-> p, arg |-> arg,
                                 from |-> IF p = 0 THEN <<>>
                                          ELSE <<View(mem, handlers[p])>>,
                                 made |-> View(r.m, r.h),
                                 held |-> mem.mu])
    /\ mem' = r.m
    /\ lastCall' = NoCall
    /\ UNCHANGED <<out, writes, returned, gor, calls>>

NewHandlerCall(w, opts) ==
    Allocate(NewHandler(mem, w, opts), "NewHandler", 0, opts)

WithAttrsCall(p, as) ==
    /\ p \in 1..Len(handlers)
    /\ Allocate(WithAttrs(mem, handlers[p], as), "WithAttrs", p, as)

WithGroupCall(p, name) ==
    /\ p \in 1..Len(handlers)
    /\ Allocate(WithGroup(mem, handlers[p], name), "WithGroup", p, name)

WithLevelCall(p, lvl) ==
    /\ p \in 1..Len(handlers)
    /\ Allocate(WithLevel(mem, handlers[p], lvl), "WithLevel", p, lvl)

SetPrefixCall(p, prefix) ==
    /\ p \in 1..Len(handlers)
    /\ Allocate(SetPrefix(mem, handlers[p], prefix), "SetPrefix", p, prefix)

WithLevelOffsetCall(p, n) ==
    /\ p \in 1..Len(handlers)
    /\ Allocate(WithLevelOffset(mem, handlers[p], n), "WithLevelOffset", p, n)

\* Enabled reads h.lvl and h.lvlOffset and assigns nothing; lastCall keeps the
\* call and its result.  A query overwrites lastCall, so one query from each
\* state made by another step reaches every state queries can reach.
EnabledCall(i, lvl) ==
    /\ i \in 1..Len(handlers)
    /\ lastCall = NoCall
    /\ lastCall' = [NoCall EXCEPT !.op = "Enabled", !.h = i, !.lvl = lvl,
                                  !.ok = Enabled(handlers[i], lvl), !.held = mem.mu]
    /\ UNCHANGED <<handlers, origin, mem, out, writes, returned, gor, calls>>

\* Prefix and LevelOffset read one field each and assign nothing
PrefixCall(i) ==
    /\ i \in 1..Len(handlers)
    /\ lastCall = NoCall
    /\ lastCall' = [NoCall EXCEPT !.op = "Prefix", !.h = i,
                                  !.prefix = Prefix(handlers[i]), !.held = mem.mu]
    /\ UNCHANGED <<handlers, origin, mem, out, writes, returned, gor, calls>>

LevelOffsetCall(i) ==
    /\ i \in 1..Len(handlers)
    /\ lastCall = NoCall
    /\ lastCall' = [NoCall EXCEPT !.op = "LevelOffset", !.h = i,
                                  !.offset = LevelOffset(handlers[i]), !.held = mem.mu]
    /\ UNCHANGED <<handlers, origin, mem, out, writes, returned, gor, calls>>

\* The writer takes a block in two pieces: it is not safe for concurrent use.
FirstPiece(bs) == SubSeq(bs, 1, Len(bs) \div 2)

SecondPiece(bs) == SubSeq(bs, Len(bs) \div 2 + 1, Len(bs))

\* a Lock that never waits
NeverWaits(m, mu) == TRUE

\* h.outMu.Lock(), h.outMu.Unlock()
CanLock(m, mu) == m.mu[mu] = NoOne

Lock(m, mu, g) == [m EXCEPT !.mu[mu] = g]

\* an Unlock that is never run
NoUnlock(m, mu) == m

Unlock(m, mu) == [m EXCEPT !.mu[mu] = NoOne]

\* _, err := h.out.Write(bs); return err
HandleResult(err) == err

\* Goroutines are interchangeable: a new call runs on the first idle one.
FirstIdle(g) ==
    \A g2 \in Goroutines : gor[g2].pc = "idle" => GIndex(g) <= GIndex(g2)

\* A Handle that asks Enabled first and returns nil, writing nothing, for a
\* record its handler does not enable.  Handle has no such test.
HandleBeginGated(g, i, rec) ==
    /\ gor[g].pc = "idle"
    /\ FirstIdle(g)
    /\ i \in 1..Len(handlers)
    /\ calls' = calls + 1
    /\ writes' = Append(writes, <<>>)
    /\ IF Enabled(handlers[i], rec.Level)
       THEN \E r \in {HandleFormat(mem, handlers[i], rec)} :
                /\ mem' = r.m
                /\ gor' = [gor EXCEPT ![g] =
                             [pc |-> "formatted", h |-> i, rec |-> rec, bs |-> r.bs,
                              call |-> calls + 1, block |-> SliceVal(r.m.bytes, r.bs)]]
                /\ returned' = Append(returned, [h |-> i, rec |-> rec, res |-> <<>>,
                                                 hooked |-> r.hooked])
       ELSE /\ returned' = Append(returned, [h |-> i, rec |-> rec, res |-> <<"nil">>,
                                             hooked |-> <<>>])
            /\ UNCHANGED <<mem, gor>>
    /\ UNCHANGED <<handlers, origin, out, lastCall>>

\* Handle, lines 134-233: take a buffer and format the record into it
HandleBegin(g, i, rec) ==
    /\ gor[g].pc = "idle"
    /\ FirstIdle(g)
    /\ i \in 1..Len(handlers)
    /\ \E r \in {HandleFormat(mem, handlers[i], rec)} :
           /\ mem' = r.m
           /\ gor' = [gor EXCEPT ![g] =
                        [pc |-> "formatted", h |-> i, rec |-> rec, bs |-> r.bs,
                         call |-> calls + 1, block |-> SliceVal(r.m.bytes, r.bs)]]
           /\ returned' = Append(returned, [h |-> i, rec |-> rec, res |-> <<>>,
                                            hooked |-> r.hooked])
    /\ calls' = calls + 1
    /\ writes' = Append(writes, <<>>)
    /\ UNCHANGED <<handlers, origin, out, lastCall>>

\* Handle, lines 235-237: lock, and enter Write with the buffer
HandleLockWrite(g) ==
    /\ gor[g].pc = "formatted"
    /\ LET h   == handlers[gor[g].h]
           arg == SliceVal(mem.bytes, gor[g].bs)
       IN  /\ CanLock(mem, h.outMu)
           /\ mem' = Lock(mem, h.outMu, g)
           /\ writes' = [writes EXCEPT ![gor[g].call] =
                            Append(@, [w |-> h.out, arg |-> arg, err |-> "pending"])]
           /\ out' = [out EXCEPT ![h.out] =
                        Append(@, [call |-> gor[g].call, bytes |-> FirstPiece(arg)])]
    /\ gor' = [gor EXCEPT ![g].pc = "writing"]
    /\ UNCHANGED <<handlers, origin, returned, calls, lastCall>>

\* a return from Write that unlocks only after a Write without error
HandleWriteReturnNoDefer(g, err) ==
    /\ gor[g].pc = "writing"
    /\ out' = IF err = "nil"
              THEN [out EXCEPT ![handlers[gor[g].h].out] =
                      Append(@, [call |-> gor[g].call,
                                 bytes |-> SecondPiece(SliceVal(mem.bytes, gor[g].bs))])]
              ELSE out
    /\ mem' = IF err = "nil"
              THEN releaseBuf(Unlock(mem, handlers[gor[g].h].outMu), gor[g].bs)
              ELSE releaseBuf(mem, gor[g].bs)
    /\ writes' = [writes EXCEPT ![gor[g].call] =
                    [k \in DOMAIN @ |-> IF @[k].err = "pending"
                                         THEN [@[k] EXCEPT !.err = err] ELSE @[k]]]
    /\ returned' = [returned EXCEPT ![gor[g].call].res = <<HandleResult(err)>>]
    /\ gor' = [gor EXCEPT ![g] = Idle]
    /\ UNCHANGED <<handlers, origin, calls, lastCall>>

\* Handle, lines 237-238 and the deferred calls: Write returns err, the
\* mutex is unlocked, the buffer goes back to the pool, Handle returns err.
HandleWriteReturn(g, err) ==
    /\ gor[g].pc = "writing"
    /\ LET h == handlers[gor[g].h]
       IN  /\ out' = IF err = "nil"
                     THEN [out EXCEPT ![h.out] =
                             Append(@, [call |-> gor[g].call,
                                        bytes |-> SecondPiece(SliceVal(mem.bytes, gor[g].bs))])]
                     ELSE out
           /\ mem' = releaseBuf(Unlock(mem, h.outMu), gor[g].bs)
    /\ writes' = [writes EXCEPT ![gor[g].call] =
                    [k \in DOMAIN @ |-> IF @[k].err = "pending"
                                         THEN [@[k] EXCEPT !.err = err] ELSE @[k]]]
    /\ returned' = [returned EXCEPT ![gor[g].call].res = <<HandleResult(err)>>]
    /\ gor' = [gor EXCEPT ![g] = Idle]
    /\ UNCHANGED <<handlers, origin, calls, lastCall>>

(***************************************************************************)
(* Inputs                                                                  *)
(***************************************************************************)
Opts(level, style, timeFormat, hook) ==
    [Level |-> level, Style |-> style, TimeFormat |-> timeFormat, ReplaceAttr |-> hook]

Rec(level, time, msg, as) ==
    [Level |-> level, Time |-> time, Message |-> msg, Attrs |-> as]

KV == Attr(<<"k">>, StringValue(<<"v">>))

MaxHandlers == 2

MaxCalls == 2

SpecOpts == { Opts(<<>>, <<PlainStyle>>, "", "nil") }

SpecRecs ==
    { Rec(LevelDebug, 1, <<"a", NL, "b", SP>>, <<KV>>) }

Errors == {"nil", "EIO"}

(***************************************************************************)
(* Spec: handlers are made and derived while two goroutines call Handle    *)
(* and the sink may fail.                                                  *)
(***************************************************************************)
Derive ==
    \E p \in 1..Len(handlers) :
        \/ WithAttrsCall(p, <<KV>>)
        \/ WithGroupCall(p, <<"g">>)
        \/ WithLevelCall(p, LevelDebug)
        \/ SetPrefixCall(p, <<"p">>)
        \/ WithLevelOffsetCall(p, -4)

Next ==
    \/ /\ Len(handlers) < MaxHandlers
       /\ \/ \E opts \in SpecOpts : NewHandlerCall(1, opts)
          \/ Derive
    \/ /\ calls < MaxCalls
       /\ \E g \in Goroutines, i \in 1..Len(handlers), rec \in SpecRecs :
              HandleBegin(g, i, rec)
    \/ \E g \in Goroutines : HandleLockWrite(g)
    \/ \E g \in Goroutines, err \in Errors : HandleWriteReturn(g, err)

Spec == Init /\ [][Next]_vars

(***************************************************************************)
(* SpecDerive: trees of handlers are derived from several roots and        *)
(* queried; nothing is logged.                                             *)
(***************************************************************************)
MaxTree == 4

KW == Attr(<<"k">>, StringValue(<<"w">>))

OffsetSteps == {-4, 4}

NextDerive ==
    /\ Len(handlers) < MaxTree
    /\ \/ NewHandlerCall(1, Opts(<<>>, <<PlainStyle>>, "", "nil"))
       \/ NewHandlerCall(2, Opts(<<LevelWarn>>, <<PlainStyle>>, "", "identity"))
       \/ \E p \in 1..Len(handlers), as \in {<<KV>>, <<KW>>} : WithAttrsCall(p, as)
       \/ \E p \in 1..Len(handlers), name \in {<<"g">>, <<>>} : WithGroupCall(p, name)
       \/ \E p \in 1..Len(handlers) : WithLevelCall(p, LevelDebug)
       \/ \E p \in 1..Len(handlers) : SetPrefixCall(p, <<"p">>)
       \/ \E p \in 1..Len(handlers), n \in OffsetSteps : WithLevelOffsetCall(p, n)

SpecDerive == Init /\ [][NextDerive]_vars

(***************************************************************************)
(* SpecQuery: one chain of handlers is derived and each is asked which     *)
(* levels it enables.                                                      *)
(***************************************************************************)
MaxChain == 3

\* built-in levels, levels between them and levels beyond them
QueryLevels == {-8, LevelDebug, -1, LevelInfo, 2, LevelWarn, LevelError, 12}

QueryOpts ==
    { Opts(<<>>, <<PlainStyle>>, "", "nil"),
      Opts(<<LevelDebug>>, <<PlainStyle>>, "", "identity"),
      Opts(<<2>>, <<PlainStyle>>, "", "nil") }

NextQuery ==
    \/ /\ handlers = <<>>
       /\ \E opts \in QueryOpts : NewHandlerCall(1, opts)
    \/ /\ handlers # <<>>
       /\ Len(handlers) < MaxChain
       /\ \/ WithAttrsCall(Len(handlers), <<KV>>)
          \/ WithGroupCall(Len(handlers), <<"g">>)
          \/ \E lvl \in {LevelDebug, LevelWarn} : WithLevelCall(Len(handlers), lvl)
          \/ \E prefix \in {<<"p">>, <<"q">>, <<>>} :
                 SetPrefixCall(Len(handlers), prefix)
          \/ \E n \in OffsetSteps : WithLevelOffsetCall(Len(handlers), n)
    \/ \E i \in 1..Len(handlers), lvl \in QueryLevels : EnabledCall(i, lvl)

SpecQuery == Init /\ [][NextQuery]_vars

(***************************************************************************)
(* SpecFmt: one chain of handlers is derived and its newest handler logs   *)
(* records of every shape to a sink that does not fail.                    *)
(***************************************************************************)
MaxDepth == 2

MaxLogged == 1

FmtOpts ==
    { Opts(<<LevelDebug>>, <<PlainStyle>>, "", "nil"),
      Opts(<<LevelDebug>>, <<PlainStyle>>, "", "identity"),
      Opts(<<>>, <<>>, "", "skipTime"),
      Opts(<<LevelDebug>>, <<PlainStyle>>, "", "skipLevel"),
      Opts(<<LevelDebug>>, <<PlainStyle>>, "RFC3339", "fixed"),
      Opts(<<LevelDebug>>, <<>>, "RFC3339", "asText") }

FmtRecs ==
    { Rec(LevelInfo, 0, <<"m">>, <<>>),
      Rec(LevelWarn, 1, <<"m">>, <<>>),
      Rec(LevelError, 1, <<"m", SP, NL>>, <<>>),
      Rec(LevelInfo, 1, <<>>, <<>>),
      Rec(LevelWarn, 1, <<>>, <<KV>>),
      Rec(LevelDebug, 0, <<"a", NL, "b">>, <<KV>>),
      Rec(LevelInfo, 0, <<"m">>, <<Attr(<<"k">>, StringValue(<<"v", SP>>))>>),
      Rec(LevelInfo, 0, <<"m">>, <<KV, Attr(<<"j">>, StringValue(<<"v", NL>>))>>),
      Rec(2, 0, <<SP>>, <<>>),
      Rec(LevelWarn, 1, <<"a", NL, "b", NL>>, <<KV>>),
      Rec(2, 1, <<"a", NL, "b">>, <<>>),
      Rec(LevelInfo, 1, <<"m">>, <<Attr(<<"t">>, TimeValue(2))>>) }

NextFmt ==
    \/ /\ handlers = <<>>
       /\ \E opts \in FmtOpts : NewHandlerCall(1, opts)
    \/ /\ handlers # <<>>
       /\ Len(handlers) < MaxDepth
       /\ \/ WithAttrsCall(Len(handlers), <<Attr(<<"k">>, StringValue(<<"v", SP>>))>>)
          \/ WithGroupCall(Len(handlers), <<"g">>)
          \/ SetPrefixCall(Len(handlers), <<"p">>)
          \/ \E n \in OffsetSteps : WithLevelOffsetCall(Len(handlers), n)
    \/ /\ handlers # <<>>
       /\ calls < MaxLogged
       /\ \E rec \in FmtRecs : HandleBegin(GName[1], Len(handlers), rec)
    \/ HandleLockWrite(GName[1])
    \/ HandleWriteReturn(GName[1], "nil")

SpecFmt == Init /\ [][NextFmt]_vars

(***************************************************************************)
(* SpecAttrs: one chain of WithAttrs and WithGroup steps is derived and    *)
(* its newest handler logs records whose attributes are grouped, empty,    *)
(* repeated or of several lines.                                           *)
(***************************************************************************)
MaxAttrChain == 4

AttrRecs ==
    { Rec(LevelInfo, 0, <<"m">>, <<Attr(<<"c">>, StringValue(<<"3">>))>>),
      Rec(LevelInfo, 0, <<"m">>,
          <<Attr(<<"h">>, GroupValue(<<Attr(<<"d">>, StringValue(<<"x", NL, "y">>)),
                                       EmptyAttr,
                                       Attr(<<>>, GroupValue(<<Attr(<<"e">>, StringValue(<<"q">>))>>))>>))>>),
      Rec(LevelInfo, 0, <<"m">>,
          <<EmptyAttr, Attr(<<"c">>, StringValue(<<"3">>)), Attr(<<"c">>, StringValue(<<"4">>))>>),
      Rec(LevelInfo, 0, <<"m">>,
          <<Attr(<<"d">>, StringValue(<<"x", NL, NL, "y", SP, "z", NL>>)), EmptyAttr>>),
      Rec(LevelInfo, 0, <<"m", NL>>,
          <<Attr(<<"d">>, StringValue(<<"x", CR, NL, "y">>)),
            Attr(<<"e">>, StringValue(<<NL>>))>>),
      Rec(LevelInfo, 0, <<"m">>, <<EmptyAttr>>),
      Rec(LevelInfo, 0, <<"m">>,
          <<Attr(<<"h">>, GroupValue(<<Attr(<<"i">>, GroupValue(<<Attr(<<"e">>, StringValue(<<"q">>))>>)),
                                       EmptyAttr>>)),
            Attr(<<"n">>, GroupValue(<<>>)),
            Attr(<<"s">>, GroupValue(<<EmptyAttr>>)),
            Attr(<<"c">>, StringValue(<<"3">>))>>) }

NextAttrs ==
    \/ /\ handlers = <<>>
       /\ NewHandlerCall(1, Opts(<<>>, <<PlainStyle>>, "", "nil"))
    \/ /\ handlers # <<>>
       /\ Len(handlers) < MaxAttrChain
       /\ \/ \E as \in { <<Attr(<<"a">>, StringValue(<<"1">>))>>,
                         <<Attr(<<"b">>, StringValue(<<"2">>)), EmptyAttr,
                           Attr(<<"b">>, StringValue(<<"3">>))>> } :
                 WithAttrsCall(Len(handlers), as)
          \/ \E name \in {<<"g">>, <<>>} : WithGroupCall(Len(handlers), name)
    \/ /\ handlers # <<>>
       /\ calls < MaxLogged
       /\ \E rec \in AttrRecs : HandleBegin(GName[1], Len(handlers), rec)
    \/ HandleLockWrite(GName[1])
    \/ HandleWriteReturn(GName[1], "nil")

SpecAttrs == Init /\ [][NextAttrs]_vars

(***************************************************************************)
(* SpecHook: a handler with a ReplaceAttr hook, or one derived from it by  *)
(* WithAttrs or WithGroup, logs records with groups and LogValuers.        *)
(***************************************************************************)
HookRecs ==
    { Rec(LevelInfo, 0, <<"m">>,
          <<Attr(<<"c">>, StringValue(<<"3">>)), KV>>),
      Rec(LevelInfo, 0, <<"m">>,
          <<Attr(<<"h">>, GroupValue(<<Attr(<<"e">>, StringValue(<<"q">>)),
                                       Attr(<<"d">>, LogValuerValue(StringValue(<<"x">>)))>>)),
            Attr(<<"n">>, GroupValue(<<KV>>)),
            Attr(<<"e">>, StringValue(<<"q">>))>>),
      Rec(LevelWarn, 1, <<"m">>,
          <<Attr(<<"l">>, LogValuerValue(LogValuerValue(StringValue(<<"v">>)))),
            Attr(<<"c">>, LogValuerValue(GroupValue(<<KV>>))),
            Attr(<<"j">>, LogValuerValue(GroupValue(<<Attr(<<"c">>, StringValue(<<"3">>)),
                                                      KV>>)))>>),
      Rec(LevelInfo, 0, <<"m">>, <<Attr(<<"d">>, StringValue(<<"x", NL, "y">>)), KV>>) }

NextHook ==
    \/ /\ handlers = <<>>
       /\ \E hook \in {"edit", "identity", "nil"} :
              NewHandlerCall(1, Opts(<<>>, <<PlainStyle>>, "", hook))
    \/ /\ handlers # <<>>
       /\ Len(handlers) < MaxDepth
       /\ \/ WithAttrsCall(Len(handlers),
                           <<Attr(<<"c">>, StringValue(<<"1">>)),
                             Attr(<<"d">>, LogValuerValue(StringValue(<<"2">>))),
                             Attr(<<"h">>, GroupValue(<<Attr(<<"e">>, StringValue(<<"q">>))>>))>>)
          \/ WithGroupCall(Len(handlers), <<"h">>)
    \/ /\ handlers # <<>>
       /\ calls < MaxLogged
       /\ \E rec \in HookRecs : HandleBegin(GName[1], Len(handlers), rec)
    \/ HandleLockWrite(GName[1])
    \/ HandleWriteReturn(GName[1], "nil")

SpecHook == Init /\ [][NextHook]_vars

(***************************************************************************)
(* SpecLock: handlers are derived and queried while two goroutines call    *)
(* Handle on them and the sink may fail.                                   *)
(***************************************************************************)
NextLock ==
    \/ /\ handlers = <<>>
       /\ \E opts \in SpecOpts : NewHandlerCall(1, opts)
    \/ /\ handlers # <<>>
       /\ Len(handlers) < MaxHandlers
       /\ Derive
    \/ \E i \in 1..Len(handlers) :
           \/ EnabledCall(i, LevelInfo)
           \/ PrefixCall(i)
           \/ LevelOffsetCall(i)
    \/ /\ calls < MaxCalls
       /\ \E g \in Goroutines, i \in 1..Len(handlers), rec \in SpecRecs :
              HandleBegin(g, i, rec)
    \/ \E g \in Goroutines : HandleLockWrite(g)
    \/ \E g \in Goroutines, err \in Errors : HandleWriteReturn(g, err)

SpecLock == Init /\ [][NextLock]_vars

\* Scheduling: a goroutine waiting in h.outMu.Lock() gets the mutex if it is
\* free again and again (sync.Mutex hands a starving waiter the mutex), and
\* every Write of the sink returns.
HandleFairness ==
    \A g \in Goroutines :
        /\ SF_vars(HandleLockWrite(g))
        /\ WF_vars(\E err \in Errors : HandleWriteReturn(g, err))

SpecLive == SpecLock /\ HandleFairness

(***************************************************************************)
(* Properties                                                              *)
(***************************************************************************)
\* the block Handle renders for record rec on handler i
BlockOf(r) == SliceVal(r.m.bytes, r.bs)

RenderedBy(h, rec) == BlockOf(HandleFormat(mem, h, rec))

Rendered(i, rec) == RenderedBy(handlers[i], rec)

Returned(c) == returned[c].res # <<>>

\* C1: every call of Handle makes exactly one call of Write, never more while
\* it runs and exactly one by the time it has returned, and the argument of
\* that call is the whole block rendered for the call's record by the call's
\* handler, whether or not the handler enables the record's level.
C1_OneWholeWrite ==
    \A c \in 1..Len(returned) :
        /\ Len(writes[c]) <= 1
        /\ Returned(c) => Len(writes[c]) = 1
        /\ \A k \in 1..Len(writes[c]) :
               writes[c][k].arg = Rendered(returned[c].h, returned[c].rec)

\* a multi-line record with attributes, of a level its handler does not
\* enable, has been handled and written in one piece
C1_Witness ==
    \E c \in 1..Len(returned) :
        /\ Returned(c)
        /\ ~Enabled(handlers[returned[c].h], returned[c].rec.Level)
        /\ NL \in Range(returned[c].rec.Message)
        /\ returned[c].rec.Attrs # <<>>
        /\ Len(writes[c]) = 1
        /\ writes[c][1].arg = Rendered(returned[c].h, returned[c].rec)

\* the handler NewHandler made, from which handler i was derived
RECURSIVE Root(_)
Root(i) == IF origin[i].parent = 0 THEN i ELSE Root(origin[i].parent)

SameFamily(c, d) == Root(returned[c].h) = Root(returned[d].h)

\* what sink w received from call c, in order
Chunks(w, c) == SelectSeq(out[w], LAMBDA x : x.call = c)

Received(w, c) == Flatten([k \in DOMAIN Chunks(w, c) |-> Chunks(w, c)[k].bytes])

\* C2: of the goroutines calling Handle on handlers of one family, at most one
\* is inside Write at any time; what the sink receives from one call is not
\* broken by bytes of another call of the family, and is the call's block;
\* and the sink receives one block from every call that returned, so as many
\* blocks as calls were made.
C2_SerializedWrites ==
    /\ \A g1, g2 \in Goroutines :
           (g1 # g2 /\ gor[g1].pc = "writing" /\ gor[g2].pc = "writing")
               => Root(gor[g1].h) # Root(gor[g2].h)
    /\ \A w \in Sinks : \A k, l \in DOMAIN out[w] :
           (k < l /\ out[w][k].call = out[w][l].call)
               => \A j \in (k + 1)..(l - 1) :
                      \/ out[w][j].call = out[w][k].call
                      \/ ~SameFamily(out[w][j].call, out[w][k].call)
    /\ \A c \in 1..Len(returned) :
           Returned(c) =>
               /\ \E k \in DOMAIN out[handlers[returned[c].h].out] :
                      out[handlers[returned[c].h].out][k].call = c
               /\ returned[c].res = <<"nil">> =>
                      Received(handlers[returned[c].h].out, c) = writes[c][1].arg
    /\ \A w \in Sinks :
           Cardinality({out[w][k].call : k \in DOMAIN out[w]})
               = Cardinality({c \in 1..Len(writes) :
                                 writes[c] # <<>> /\ handlers[returned[c].h].out = w})

\* two calls on handlers of one family have both returned, and the block of
\* the call that started second reached the sink first
C2_Witness ==
    /\ Len(returned) = 2
    /\ Returned(1) /\ Returned(2)
    /\ returned[1].res = <<"nil">> /\ returned[2].res = <<"nil">>
    /\ returned[1].h # returned[2].h
    /\ SameFamily(1, 2)
    /\ out[1][1].call = 2
    /\ Len(out[1]) = 4

Roots == {i \in 1..Len(handlers) : origin[i].parent = 0}

\* C3: every handler holds the mutex and the writer of the handler NewHandler
\* made at the start of its chain of derivations; every mutex was made by one
\* call of NewHandler, and handlers that NewHandler made in different calls
\* hold different mutexes.
C3_FamilySharesLock ==
    /\ \A i \in 1..Len(handlers) :
           /\ handlers[i].outMu = handlers[Root(i)].outMu
           /\ handlers[i].out = handlers[Root(i)].out
           /\ handlers[i].out = origin[Root(i)].made.out
    /\ \A i, j \in Roots : i # j => handlers[i].outMu # handlers[j].outMu
    /\ Cardinality(DOMAIN mem.mu) = Cardinality(Roots)

\* two roots, one of them with a handler derived from a derived handler
C3_Witness ==
    /\ Cardinality(Roots) = 2
    /\ \E i \in 1..Len(handlers) :
           /\ origin[i].parent # 0
           /\ origin[origin[i].parent].parent # 0
           /\ origin[i].op # origin[origin[i].parent].op
           /\ handlers[i].outMu = handlers[Root(i)].outMu

IsPrefix(p, s) == Len(p) <= Len(s) /\ SubSeq(s, 1, Len(p)) = p

\* the label the style of h registers for the level of rec moved by the offset
OffsetLabel(h, rec) ==
    StyleString(MapGet(h.style.LevelLabels, rec.Level + h.lvlOffset))

\* a block that starts with the time of rec, if it has one, and that label
StartsWithOffsetLabel(h, rec, block) ==
    IsPrefix((IF TimeLabel(h, rec) # <<>> THEN TimeLabel(h, rec) \o timeDelim
              ELSE <<>>) \o OffsetLabel(h, rec), block)

\* C4: whether or not the handler has a ReplaceAttr hook, the block Handle
\* writes for a record carries the label the style registers for the record's
\* level plus the handler's offset (for a record with a message and a level
\* the style has a label for); and a handler of minimum level debug and offset
\* -4 enables info, warn and error.
C4_LabelOfOffsetLevel ==
    \A c \in 1..Len(writes) : \A k \in 1..Len(writes[c]) :
        LET h   == handlers[returned[c].h]
            rec == returned[c].rec
        IN  /\ (rec.Message # <<>> /\ OffsetLabel(h, rec) # <<>>)
                   => StartsWithOffsetLabel(h, rec, writes[c][k].arg)
            /\ (h.lvl = LevelDebug /\ h.lvlOffset = -4 /\ rec.Level >= LevelInfo)
                   => Enabled(h, rec.Level)

\* C5: a call of Enabled on a handler of minimum level L and offset O, with
\* any level, built in or not, answers true exactly when level + O >= L, and
\* leaves every handler, the heap, the sinks and the calls in flight as they were.
C5_EnabledIffOffsetLevel ==
    [][ lastCall'.op = "Enabled" =>
            /\ lastCall'.ok = (lastCall'.lvl + LevelOffset(handlers[lastCall'.h])
                                   >= handlers[lastCall'.h].lvl)
            /\ UNCHANGED <<handlers, origin, mem, out, writes, returned, gor, calls>>
      ]_vars

\* Enabled has answered true for a level between the built-in ones that only
\* the offset lifts to the minimum, on a handler whose minimum WithLevel set
C5_Witness ==
    /\ lastCall.op = "Enabled"
    /\ lastCall.ok
    /\ lastCall.lvl \notin {LevelDebug, LevelInfo, LevelWarn, LevelError}
    /\ lastCall.lvl < handlers[lastCall.h].lvl
    /\ handlers[lastCall.h].lvlOffset > 0
    /\ \E i \in 1..lastCall.h : origin[i].op = "WithLevel"

\* second steps tried on top of a WithLevelOffset step
MoreSteps == {-8, -4, 0, 4, 8}

\* C6: WithLevelOffset(n) on a handler h gives a handler whose offset is that
\* of h plus n; a further WithLevelOffset(m) gives the offset WithLevelOffset(n + m)
\* on h gives; and a further WithLevelOffset(-n) gives a handler that enables
\* the levels h enables and renders every record as h does, label included.
C6_OffsetAddsAndReverts ==
    \A i \in 1..Len(handlers) :
        origin[i].op = "WithLevelOffset" =>
            LET n    == origin[i].arg
                h    == handlers[origin[i].parent]
                hn   == handlers[i]
                back == WithLevelOffset(mem, hn, -n).h
            IN  /\ LevelOffset(hn) = LevelOffset(h) + n
                /\ \A m \in MoreSteps :
                       LevelOffset(WithLevelOffset(mem, hn, m).h)
                           = LevelOffset(WithLevelOffset(mem, h, n + m).h)
                /\ LevelOffset(back) = LevelOffset(h)
                /\ \A lvl \in QueryLevels : Enabled(back, lvl) = Enabled(h, lvl)
                /\ \A rec \in FmtRecs :
                       /\ LevelLabel(back, rec) = LevelLabel(h, rec)
                       /\ RenderedBy(back, rec) = RenderedBy(h, rec)

\* a chain h, h.WithLevelOffset(n), h.WithLevelOffset(n).WithLevelOffset(-n) on
\* a handler with a hook: the middle handler labels a record differently and
\* enables other levels, the last one labels and enables as h does
C6_Witness ==
    /\ Len(handlers) = 3
    /\ origin[2].op = "WithLevelOffset" /\ origin[3].op = "WithLevelOffset"
    /\ origin[3].arg = -origin[2].arg
    /\ handlers[1].replaceAttr # "nil"
    /\ \E rec \in FmtRecs :
           /\ LevelLabel(handlers[2], rec) # LevelLabel(handlers[1], rec)
           /\ LevelLabel(handlers[3], rec) = LevelLabel(handlers[1], rec)
    /\ \E lvl \in QueryLevels :
           /\ Enabled(handlers[2], lvl) # Enabled(handlers[1], lvl)
           /\ Enabled(handlers[3], lvl) = Enabled(handlers[1], lvl)

\* C7: a derived handler holds, when it is made, what its parent holds at
\* that moment in every field but one: WithAttrs only extends the attribute
\* bytes, WithGroup only appends the name, empty or not, to the group stack,
\* WithLevel only sets the minimum level, SetPrefix only sets the prefix, and
\* WithLevelOffset only adds to the offset.
C7_OnlyTargetedField ==
    \A i \in 1..Len(handlers) :
        origin[i].parent # 0 =>
            LET parent == origin[i].from[1]
                newH   == origin[i].made
                arg    == origin[i].arg
            IN  /\ origin[i].op = "WithAttrs" =>
                       /\ newH = [parent EXCEPT !.attrs = newH.attrs]
                       /\ IsPrefix(parent.attrs, newH.attrs)
                       /\ Len(newH.attrs) > Len(parent.attrs)
                /\ origin[i].op = "WithGroup" =>
                       newH = [parent EXCEPT !.groups = Append(parent.groups, arg)]
                /\ origin[i].op = "WithLevel" =>
                       newH = [parent EXCEPT !.lvl = arg]
                /\ origin[i].op = "SetPrefix" =>
                       newH = [parent EXCEPT !.prefix = arg]
                /\ origin[i].op = "WithLevelOffset" =>
                       newH = [parent EXCEPT !.lvlOffset = parent.lvlOffset + arg]

\* an empty name was pushed on the group stack, an offset was added, and
\* WithLevel was applied to the result and changed the minimum level
C7_Witness ==
    \E i \in 1..Len(handlers) :
        /\ origin[i].op = "WithLevel"
        /\ origin[i].made.lvl # origin[i].from[1].lvl
        /\ origin[i].made.lvlOffset # 0
        /\ origin[i].made.groups = <<<<>>>>
        /\ \E j \in 1..Len(handlers) : origin[j].op = "WithGroup" /\ origin[j].arg = <<>>

Running == {g \in Goroutines : gor[g].pc # "idle"}

\* C9: a call of Handle that has returned made one call of Write and no more,
\* and returned what that Write returned, error or not; a mutex is held only by
\* a goroutine that is inside Write on a handler holding it, so not by a call
\* that has returned; and every buffer taken from the pool is back in it
\* unless a call still running holds it.
C9_WriteErrorReturned ==
    /\ \A c \in 1..Len(returned) :
           Returned(c) =>
               /\ Len(writes[c]) = 1
               /\ returned[c].res = <<writes[c][1].err>>
    /\ \A mu \in DOMAIN mem.mu :
           mem.mu[mu] # NoOne =>
               /\ mem.mu[mu] \in Running
               /\ gor[mem.mu[mu]].pc = "writing"
               /\ handlers[gor[mem.mu[mu]].h].outMu = mu
    /\ Len(mem.pool) + Cardinality(Running) = mem.next.pb
    /\ \A g \in Running : \A k \in DOMAIN mem.pool : mem.pool[k].arr # gor[g].bs.arr

\* a call got an error from Write and returned it, and a later call on another
\* handler of the family took the lock, wrote its block and returned nil
C9_Witness ==
    /\ Len(returned) = 2
    /\ returned[1].res = <<"EIO">>
    /\ returned[2].res = <<"nil">>
    /\ returned[1].h # returned[2].h
    /\ SameFamily(1, 2)
    /\ Len(out[1]) = 3 /\ out[1][1].call = 1
    /\ Received(1, 2) = writes[2][1].arg
    /\ Len(mem.pool) = mem.next.pb

\* C10: every block passed to Write ends with a line terminator, and the byte
\* before that one, if the block has one, is neither a space nor a line
\* terminator.
C10_OneTrailingNewline ==
    \A c \in 1..Len(writes) : \A k \in 1..Len(writes[c]) :
        LET block == writes[c][k].arg
        IN  /\ block # <<>>
            /\ Last(block) = NL
            /\ Len(block) > 1 => block[Len(block) - 1] \notin {SP, NL}

\* a block was written for a record whose last attribute value ends with a
\* line terminator, by a handler that carries over an attribute whose value
\* ends with a space
C10_Witness ==
    \E c \in 1..Len(writes) :
        /\ writes[c] # <<>>
        /\ Len(writes[c][1].arg) > 1
        /\ returned[c].rec.Attrs # <<>>
        /\ Last(returned[c].rec.Attrs).Value.Kind = "String"
        /\ Last(Last(returned[c].rec.Attrs).Value.V) = NL
        /\ View(mem, handlers[returned[c].h]).attrs # <<>>
        /\ Last(View(mem, handlers[returned[c].h]).attrs) = SP

\* the time and the label of a record on handler h, each with its delimiter
Header(h, rec) ==
    (IF TimeLabel(h, rec) # <<>> THEN TimeLabel(h, rec) \o timeDelim ELSE <<>>)
    \o (IF LevelLabel(h, rec) # <<>> THEN LevelLabel(h, rec) \o lvlDelim ELSE <<>>)

\* a line of the message behind the header and the prefix of h
HeadedLine(h, rec, text) ==
    Header(h, rec)
    \o Render(MapGet(h.style.Messages, rec.Level),
              <<(IF h.prefix # <<>> THEN h.prefix \o <<":", SP>> ELSE <<>>) \o text>>)

\* the lines of the message, each behind the header, as the block starts
RECURSIVE HeadedLines(_, _, _)
HeadedLines(h, rec, lines) ==
    IF lines = <<>> THEN <<>>
    ELSE HeadedLine(h, rec, TrimRight(Head(lines), {NL}))
         \o (IF Last(Head(lines)) = NL THEN <<NL>> ELSE <<>>)
         \o HeadedLines(h, rec, Tail(lines))

\* how often x occurs in s
RECURSIVE Count(_, _)
Count(x, s) ==
    IF s = <<>> THEN 0 ELSE (IF Head(s) = x THEN 1 ELSE 0) + Count(x, Tail(s))

\* the attributes of as that are not groups, those inside groups included
RECURSIVE Leaves(_)
Leaves(as) ==
    IF as = <<>> THEN <<>>
    ELSE (IF Head(as).Value.Kind = "Group" THEN Leaves(Head(as).Value.V)
          ELSE IF AttrEqual(Head(as), EmptyAttr) THEN <<>>
          ELSE <<Head(as)>>) \o Leaves(Tail(as))

\* what follows the first n elements of s
From(s, n) == SubSeq(s, n + 1, Len(s))

\* block carries the attributes once, behind the lines of the message
TailOnce(h, rec, lines, block) ==
    IF h.attrs = <<>> /\ Leaves(rec.Attrs) = <<>>
    THEN block = TrimRight(lines, {SP, NL}) \o <<NL>>
    ELSE /\ IsPrefix(lines \o <<SP, SP>>, block)
         /\ From(block, Len(lines) + 2) # <<>>
         /\ Head(From(block, Len(lines) + 2)) # SP
         /\ Count("=", block) = Count("=", h.attrs) + Len(Leaves(rec.Attrs))

\* C11: the block written for a message of one or more lines starts with
\* those lines, each behind the same time, label and prefix; the attributes,
\* carried over and of the record, follow once: behind two spaces on the last
\* line or, when the message ends with a line terminator, behind two spaces on
\* a line of their own that has no header.
C11_HeaderOnEveryLine ==
    \A c \in 1..Len(writes) : \A k \in 1..Len(writes[c]) :
        returned[c].rec.Message # <<>> =>
            TailOnce(View(mem, handlers[returned[c].h]), returned[c].rec,
                     HeadedLines(handlers[returned[c].h], returned[c].rec,
                                 Lines(returned[c].rec.Message)),
                     writes[c][k].arg)

\* a message of two lines that ends with a line terminator was written, with
\* a time, a label, a prefix and an attribute
C11_Witness ==
    \E c \in 1..Len(writes) :
        /\ writes[c] # <<>>
        /\ Len(Lines(returned[c].rec.Message)) = 2
        /\ Last(returned[c].rec.Message) = NL
        /\ returned[c].rec.Attrs # <<>>
        /\ handlers[returned[c].h].prefix # <<>>
        /\ TimeLabel(handlers[returned[c].h], returned[c].rec) # <<>>
        /\ LevelLabel(handlers[returned[c].h], returned[c].rec) # <<>>
        /\ Count(NL, writes[c][1].arg) = 3

\* the pieces of s between spaces and line terminators
RECURSIVE Split(_, _)
Split(s, cur) ==
    IF s = <<>>
    THEN IF cur = <<>> THEN <<>> ELSE <<cur>>
    ELSE IF Head(s) \in {SP, NL}
         THEN (IF cur = <<>> THEN <<>> ELSE <<cur>>) \o Split(Tail(s), <<>>)
         ELSE Split(Tail(s), Append(cur, Head(s)))

\* the position of the first "=" of a piece
EqAt(tok) == CHOOSE i \in DOMAIN tok : tok[i] = "=" /\ \A j \in 1..(i - 1) : tok[j] # "="

\* pieces that hold "=", as keys and values
KeyValues(toks) ==
    [ k \in DOMAIN toks |-> [ key |-> SubSeq(toks[k], 1, EqAt(toks[k]) - 1),
                              val |-> From(toks[k], EqAt(toks[k])) ] ]

\* the key=value pieces of a block, in order
Pairs(block) ==
    KeyValues(SelectSeq(Split(block, <<>>), LAMBDA tok : "=" \in Range(tok)))

RenderedKeys(block) == [k \in DOMAIN Pairs(block) |-> Pairs(block)[k].key]

\* the attributes of as that are not groups, each with the names of the
\* groups around it, outermost first, behind the names in path
RECURSIVE Pathed(_, _)
Pathed(path, as) ==
    IF as = <<>> THEN <<>>
    ELSE (IF Head(as).Value.Kind = "Group"
          THEN Pathed(Append(path, Head(as).Key), Head(as).Value.V)
          ELSE IF AttrEqual(Head(as), EmptyAttr) THEN <<>>
          ELSE <<[path |-> path, attr |-> Head(as)]>>)
         \o Pathed(path, Tail(as))

\* g1.g2...gk.key over the names of path that are not empty
Dotted(path, key) ==
    Flatten([i \in DOMAIN SelectSeq(path, LAMBDA g : g # <<>>) |->
                SelectSeq(path, LAMBDA g : g # <<>>)[i] \o <<".">>]) \o key

DottedKeys(pathed) == [i \in DOMAIN pathed |-> Dotted(pathed[i].path, pathed[i].attr.Key)]

\* the last n elements of s
LastN(s, n) == SubSeq(s, Len(s) - n + 1, Len(s))

\* no key starts with "." or holds ".."
NoEmptySegment(keys) ==
    \A i \in DOMAIN keys :
        /\ keys[i] # <<>>
        /\ Head(keys[i]) # "."
        /\ \A j \in 1..(Len(keys[i]) - 1) : ~(keys[i][j] = "." /\ keys[i][j + 1] = ".")

\* keys end with the keys of the attributes in pathed
EndsWithKeysOf(keys, pathed) ==
    /\ Len(keys) >= Len(pathed)
    /\ LastN(keys, Len(pathed)) = DottedKeys(pathed)

\* C12: in every block written, the keys of the record's attributes are, in
\* order, the non-empty names of the handler's groups and of the groups that
\* hold the attribute, each followed by ".", and then the attribute's key; no
\* key written starts with "." or holds "..".
C12_GroupPrefixedKeys ==
    \A c \in 1..Len(writes) : \A k \in 1..Len(writes[c]) :
        /\ EndsWithKeysOf(RenderedKeys(writes[c][k].arg),
                          Pathed(View(mem, handlers[returned[c].h]).groups,
                                 returned[c].rec.Attrs))
        /\ NoEmptySegment(RenderedKeys(writes[c][k].arg))

\* a handler behind WithGroup("g"), WithGroup("") and WithGroup("g") wrote a
\* record whose attribute sits in a named group and in an unnamed one inside it
C12_Witness ==
    \E c \in 1..Len(writes) :
        /\ writes[c] # <<>>
        /\ View(mem, handlers[returned[c].h]).groups = << <<"g">>, <<>>, <<"g">> >>
        /\ \E i \in DOMAIN Pathed(<<>>, returned[c].rec.Attrs) :
               Pathed(<<>>, returned[c].rec.Attrs)[i].path = << <<"h">>, <<>> >>
        /\ <<"g", ".", "g", ".", "h", ".", "e">> \in Range(RenderedKeys(writes[c][1].arg))

\* the lines of a block, without their terminators
BlockLines(block) == [i \in DOMAIN Lines(block) |-> TrimRight(Lines(block)[i], {NL})]

\* the indentation and the continuation prefix of the plain style
ContPrefix == <<SP, SP, SP, SP, "|", SP>>

\* a continuation line; the last line of a block has lost trailing spaces
IsCont(line) == IsPrefix(ContPrefix, line) \/ line = TrimRight(ContPrefix, {SP})

\* a line that holds an indented key and "=" and nothing else
IsKeyLine(line) ==
    /\ Len(line) > 3
    /\ IsPrefix(indent, line)
    /\ Last(line) = "="
    /\ SP \notin Range(From(line, 2))

\* the texts of the continuation lines of bl from line i on, up to the first
\* line that is not one
RECURSIVE RunFrom(_, _)
RunFrom(bl, i) ==
    IF i > Len(bl) \/ ~IsCont(bl[i]) THEN <<>>
    ELSE <<From(bl[i], Len(ContPrefix))>> \o RunFrom(bl, i + 1)

\* the key lines of bl from line i on, each with the continuation lines behind it
RECURSIVE KeyLinesFrom(_, _)
KeyLinesFrom(bl, i) ==
    IF i > Len(bl) THEN <<>>
    ELSE (IF IsKeyLine(bl[i])
          THEN <<[ key   |-> SubSeq(bl[i], 3, Len(bl[i]) - 1),
                   texts |-> RunFrom(bl, i + 1) ]>>
          ELSE <<>>) \o KeyLinesFrom(bl, i + 1)

\* the line terminators of a text that are not its last element
InternalTerminators(text) ==
    Count(NL, text) - (IF text # <<>> /\ Last(text) = NL THEN 1 ELSE 0)

\* the texts of the lines of a value, without their terminators
TextsOf(text) == [j \in DOMAIN Lines(text) |-> TrimRight(Lines(text)[j], {CR, NL})]

\* attributes as their keys, the numbers of their lines and the texts of these
Wanted(pathed) ==
    [ i \in DOMAIN pathed |->
        [ key   |-> Dotted(pathed[i].path, pathed[i].attr.Key),
          n     |-> InternalTerminators(pathed[i].attr.Value.V) + 1,
          texts |-> TextsOf(pathed[i].attr.Value.V) ] ]

\* the attributes of pathed whose value holds a line terminator
SeveralLines(pathed) ==
    Wanted(SelectSeq(pathed, LAMBDA x : NL \in Range(x.attr.Value.V)))

\* the key lines found are those wanted, each with as many continuation
\* lines as wanted and with the wanted texts
SameContinuations(found, wanted) ==
    /\ Len(found) = Len(wanted)
    /\ \A i \in DOMAIN wanted :
           /\ found[i].key = wanted[i].key
           /\ Len(found[i].texts) = wanted[i].n
           /\ found[i].texts = wanted[i].texts

RECURSIVE WithoutEmpty(_)
WithoutEmpty(as) ==
    IF as = <<>> THEN <<>>
    ELSE (IF AttrEqual(Head(as), EmptyAttr) THEN <<>>
          ELSE IF Head(as).Value.Kind = "Group"
          THEN <<Attr(Head(as).Key, GroupValue(WithoutEmpty(Head(as).Value.V)))>>
          ELSE <<Head(as)>>) \o WithoutEmpty(Tail(as))

\* the attribute bytes of the handler a derivation returned
AttrsMade(r) == View(r.m, r.h).attrs

\* C14: a block written for a record is the block that is rendered for the
\* record without its empty attributes, and the attribute bytes of a handler
\* made by WithAttrs are those WithAttrs makes of the same attributes without
\* the empty ones; empty attributes inside groups included.
C14_EmptyAttrLeavesNoTrace ==
    /\ \A c \in 1..Len(writes) : \A k \in 1..Len(writes[c]) :
           writes[c][k].arg
               = RenderedBy(handlers[returned[c].h],
                            [returned[c].rec EXCEPT !.Attrs = WithoutEmpty(@)])
    /\ \A i \in 1..Len(handlers) :
           origin[i].op = "WithAttrs" =>
               origin[i].made.attrs
                   = AttrsMade(WithAttrs(mem, handlers[origin[i].parent],
                                         WithoutEmpty(origin[i].arg)))

\* a handler made by WithAttrs of attributes with an empty one between them
\* wrote a record that has an empty attribute inside a group, between others
C14_Witness ==
    \E c \in 1..Len(writes) :
        /\ writes[c] # <<>>
        /\ origin[returned[c].h].op = "WithAttrs"
        /\ EmptyAttr \in Range(origin[returned[c].h].arg)
        /\ \E i \in DOMAIN returned[c].rec.Attrs :
               /\ returned[c].rec.Attrs[i].Value.Kind = "Group"
               /\ Len(returned[c].rec.Attrs[i].Value.V) = 3
               /\ returned[c].rec.Attrs[i].Value.V[2] = EmptyAttr
        /\ Len(Pairs(writes[c][1].arg)) = 4

\* the attributes given to the WithAttrs calls that led to handler i, those
\* of the earliest call first
RECURSIVE ChainAttrs(_)
ChainAttrs(i) ==
    IF origin[i].parent = 0 THEN <<>>
    ELSE ChainAttrs(origin[i].parent)
         \o (IF origin[i].op = "WithAttrs" THEN origin[i].arg ELSE <<>>)

\* what follows the last "." of a key
RECURSIVE BareKey(_)
BareKey(key) == IF "." \in Range(key) THEN BareKey(Tail(key)) ELSE key

\* pairs with their keys cut down to what follows the groups
Bare(pairs) == [i \in DOMAIN pairs |-> [key |-> BareKey(pairs[i].key), val |-> pairs[i].val]]

\* attributes as the pairs they are written as on a line: a value of several
\* lines leaves nothing behind "=" on the line of its key
OnLine(leaves) ==
    [ i \in DOMAIN leaves |->
        [ key |-> leaves[i].Key,
          val |-> IF NL \in Range(leaves[i].Value.V) THEN <<>> ELSE leaves[i].Value.V ] ]

\* C15: the attributes of every block written are, in this order, those given
\* to the WithAttrs calls along the chain that made the handler, the earliest
\* call first and each call's attributes as they were given, and then those
\* of the record as they were added; every one of them is there, also when
\* its key is that of another.
C15_AttrsInOrder ==
    \A c \in 1..Len(writes) : \A k \in 1..Len(writes[c]) :
        Bare(Pairs(writes[c][k].arg))
            = OnLine(Leaves(ChainAttrs(returned[c].h)) \o Leaves(returned[c].rec.Attrs))

\* a handler behind two WithAttrs calls, the second with two attributes of
\* one key, wrote a record with two attributes of one key
C15_Witness ==
    \E c \in 1..Len(writes) :
        /\ writes[c] # <<>>
        /\ Len(ChainAttrs(returned[c].h)) = 4
        /\ ChainAttrs(returned[c].h)[1].Key = <<"a">>
        /\ ChainAttrs(returned[c].h)[2].Key = <<"b">>
        /\ ChainAttrs(returned[c].h)[4].Key = <<"b">>
        /\ Len(Leaves(returned[c].rec.Attrs)) = 2
        /\ Len(returned[c].rec.Attrs) = 3
        /\ returned[c].rec.Attrs[2].Key = returned[c].rec.Attrs[3].Key
        /\ Len(Pairs(writes[c][1].arg)) = 5

\* the keys of the attributes carried over by handler i, as they were written
\* when WithAttrs took them: behind the groups its parent had at that time
RECURSIVE CarriedKeys(_)
CarriedKeys(i) ==
    IF origin[i].parent = 0 THEN <<>>
    ELSE CarriedKeys(origin[i].parent)
         \o (IF origin[i].op = "WithAttrs"
             THEN DottedKeys(Pathed(origin[i].from[1].groups, origin[i].arg))
             ELSE <<>>)

\* C16: the keys of every block written are those of the attributes carried
\* over, each behind the groups entered before the WithAttrs call that took
\* it and behind no group entered later, followed by those of the record's
\* attributes behind all groups of the handler; WithGroup leaves the
\* attribute bytes of its parent as they are.
C16_GroupPrefixesLaterAttrs ==
    /\ \A c \in 1..Len(writes) : \A k \in 1..Len(writes[c]) :
           RenderedKeys(writes[c][k].arg)
               = CarriedKeys(returned[c].h)
                 \o DottedKeys(Pathed(View(mem, handlers[returned[c].h]).groups,
                                      returned[c].rec.Attrs))
    /\ \A i \in 1..Len(handlers) :
           origin[i].op = "WithGroup" =>
               RenderedKeys(origin[i].made.attrs) = CarriedKeys(origin[i].parent)

\* the handler h.WithAttrs(a).WithGroup("g").WithAttrs(b, b) wrote a record
\* with the attribute c, with the keys a, g.b, g.b and g.c
C16_Witness ==
    \E c \in 1..Len(writes) :
        /\ writes[c] # <<>>
        /\ returned[c].h = 4
        /\ origin[2].op = "WithAttrs" /\ origin[3].op = "WithGroup"
        /\ origin[4].op = "WithAttrs"
        /\ RenderedKeys(writes[c][1].arg)
               = << <<"a">>, <<"g", ".", "b">>, <<"g", ".", "b">>, <<"g", ".", "c">> >>

\* records whose message has a last line that ends with text
EndWithText == {rec \in FmtRecs : rec.Message # <<>> /\ Last(rec.Message) \notin {SP, NL}}

\* C17: a handler made by SetPrefix(q) answers q to Prefix, whatever prefix
\* its parent has, and the parent still answers its own; every line of a
\* message it renders holds, between the header and the text, q and the
\* prefix delimiter and nothing of the parent's prefix, and for the empty q
\* neither a prefix nor a delimiter.
C17_PrefixReplaced ==
    \A i \in 1..Len(handlers) :
        origin[i].op = "SetPrefix" =>
            /\ Prefix(handlers[i]) = origin[i].arg
            /\ Prefix(handlers[origin[i].parent]) = origin[i].from[1].prefix
            /\ \A rec \in EndWithText :
                   IsPrefix(HeadedLines([handlers[origin[i].parent] EXCEPT
                                            !.prefix = origin[i].arg],
                                        rec, Lines(rec.Message)),
                            RenderedBy(handlers[i], rec))
            /\ origin[i].arg = <<>> =>
                   \A rec \in EndWithText :
                       IsPrefix(Header(handlers[i], rec) \o <<Head(rec.Message)>>,
                                RenderedBy(handlers[i], rec))

\* SetPrefix("q") was called on a handler made by SetPrefix("p"), and the
\* handler it made renders "q: m" where its parent renders "p: m"
C17_Witness ==
    /\ Len(handlers) = 3
    /\ origin[2].op = "SetPrefix" /\ origin[2].arg = <<"p">>
    /\ origin[3].op = "SetPrefix" /\ origin[3].arg = <<"q">>
    /\ Prefix(handlers[2]) = <<"p">>
    /\ RenderedBy(handlers[2], Rec(LevelInfo, 0, <<"m">>, <<>>))
           = <<"I", "N", "F", SP, "p", ":", SP, "m", NL>>
    /\ RenderedBy(handlers[3], Rec(LevelInfo, 0, <<"m">>, <<>>))
           = <<"I", "N", "F", SP, "q", ":", SP, "m", NL>>

\* the lines of a message, each behind the time, if there is one, and the
\* prefix, if there is one, and behind nothing else
RECURSIVE UnlabelledLines(_, _, _)
UnlabelledLines(h, rec, lines) ==
    IF lines = <<>> THEN <<>>
    ELSE (IF TimeLabel(h, rec) # <<>> THEN TimeLabel(h, rec) \o <<SP>> ELSE <<>>)
         \o Render(MapGet(h.style.Messages, rec.Level),
                   <<(IF h.prefix # <<>> THEN h.prefix \o <<":", SP>> ELSE <<>>)
                     \o TrimRight(Head(lines), {NL})>>)
         \o (IF Last(Head(lines)) = NL THEN <<NL>> ELSE <<>>)
         \o UnlabelledLines(h, rec, Tail(lines))

\* the style of h has no label for the level of rec, moved by the offset or
\* not, and the hook of h, if it has one, leaves the level as it is
Unlabelled(h, rec) ==
    /\ StyleString(MapGet(h.style.LevelLabels, rec.Level)) = <<>>
    /\ StyleString(MapGet(h.style.LevelLabels, rec.Level + h.lvlOffset)) = <<>>
    /\ ReplaceAttr(h.replaceAttr, <<>>, Attr(LevelKey, AnyLevel(rec.Level + h.lvlOffset)))
           = Attr(LevelKey, AnyLevel(rec.Level + h.lvlOffset))

\* C18: a record for whose level the style has no label is written all the
\* same, by one Write that returns no error to the caller, and every line of
\* its message starts with the time, if the record has one, and goes on with
\* the prefix or the text: there is no label and no delimiter of a label.
C18_NoLabelNoSegment ==
    \A c \in 1..Len(returned) :
        Unlabelled(handlers[returned[c].h], returned[c].rec) =>
            /\ Returned(c) => (Len(writes[c]) = 1 /\ returned[c].res = <<"nil">>)
            /\ \A k \in 1..Len(writes[c]) :
                   TailOnce(View(mem, handlers[returned[c].h]), returned[c].rec,
                            UnlabelledLines(handlers[returned[c].h], returned[c].rec,
                                            Lines(returned[c].rec.Message)),
                            writes[c][k].arg)

\* a record of two lines with a time, of a level without a label, was written
\* by a handler with a prefix, and its Handle has returned
C18_Witness ==
    \E c \in 1..Len(returned) :
        /\ Returned(c)
        /\ Unlabelled(handlers[returned[c].h], returned[c].rec)
        /\ Len(Lines(returned[c].rec.Message)) = 2
        /\ TimeLabel(handlers[returned[c].h], returned[c].rec) # <<>>
        /\ handlers[returned[c].h].prefix # <<>>
        /\ Len(writes[c]) = 1
        /\ IsPrefix(TimeLabel(handlers[returned[c].h], returned[c].rec)
                        \o <<SP, "p", ":", SP, "a", NL>>,
                    writes[c][1].arg)

\* the attributes Handle makes of the level and of the time of a record
LevelAttrOf(h, rec) == Attr(LevelKey, AnyLevel(rec.Level + h.lvlOffset))

TimeAttrOf(rec) == Attr(TimeKey, TimeValue(rec.Time))

\* the label to expect for what the hook made of the level attribute
WantedLabel(h, a) ==
    IF a = EmptyAttr THEN <<>>
    ELSE IF a.Value.Kind = "Any" /\ a.Value.dyn = "Level"
    THEN StyleString(MapGet(h.style.LevelLabels, a.Value.V[1]))
    ELSE ValueString(a.Value)

\* the time to expect for what the hook made of the time attribute
WantedTime(h, rec, a) ==
    IF rec.Time = 0 \/ a = EmptyAttr THEN <<>>
    ELSE Render(h.style.Time,
                <<IF a.Value.Kind = "Time" THEN TimeFormat(a.Value.V[1], h.timeFormat)
                  ELSE ValueString(a.Value)>>)

\* the lines of a message, each behind a time and a label, where these are
\* not empty, and behind the prefix of h
RECURSIVE LinesBehind(_, _, _, _, _)
LinesBehind(h, rec, time, label, lines) ==
    IF lines = <<>> THEN <<>>
    ELSE (IF time # <<>> THEN time \o <<SP>> ELSE <<>>)
         \o (IF label # <<>> THEN label \o <<SP>> ELSE <<>>)
         \o Render(MapGet(h.style.Messages, rec.Level),
                   <<(IF h.prefix # <<>> THEN h.prefix \o <<":", SP>> ELSE <<>>)
                     \o TrimRight(Head(lines), {NL})>>)
         \o (IF Last(Head(lines)) = NL THEN <<NL>> ELSE <<>>)
         \o LinesBehind(h, rec, time, label, Tail(lines))

\* the calls among hooked that were made for the attribute of key
CallsFor(hooked, key) == SelectSeq(hooked, LAMBDA x : x.groups = <<>> /\ x.attr.Key = key)

\* C19: a call of Handle on a handler with a hook calls the hook once with
\* the level attribute, and once with the time attribute when the record has
\* a time and not at all when it has none; a handler without a hook calls
\* none.  Every line of the block starts with what the hook made of them: no
\* time or no label and no delimiter for an empty attribute, the label of the
\* level it returned, the text of any other value it returned.
C19_HookForLevelAndTime ==
    \A c \in 1..Len(returned) :
        /\ handlers[returned[c].h].replaceAttr = "nil" => returned[c].hooked = <<>>
        /\ handlers[returned[c].h].replaceAttr # "nil" =>
               /\ CallsFor(returned[c].hooked, LevelKey)
                      = <<[groups |-> <<>>,
                           attr |-> LevelAttrOf(handlers[returned[c].h], returned[c].rec)]>>
               /\ CallsFor(returned[c].hooked, TimeKey)
                      = IF returned[c].rec.Time # 0
                        THEN <<[groups |-> <<>>, attr |-> TimeAttrOf(returned[c].rec)]>>
                        ELSE <<>>
               /\ \A k \in 1..Len(writes[c]) :
                      returned[c].rec.Message # <<>> =>
                          TailOnce(View(mem, handlers[returned[c].h]), returned[c].rec,
                                   LinesBehind(
                                       handlers[returned[c].h], returned[c].rec,
                                       WantedTime(handlers[returned[c].h], returned[c].rec,
                                                  ReplaceAttr(handlers[returned[c].h].replaceAttr,
                                                              <<>>, TimeAttrOf(returned[c].rec))),
                                       WantedLabel(handlers[returned[c].h],
                                                   ReplaceAttr(handlers[returned[c].h].replaceAttr,
                                                               <<>>,
                                                               LevelAttrOf(handlers[returned[c].h],
                                                                           returned[c].rec))),
                                       Lines(returned[c].rec.Message)),
                                   writes[c][k].arg)

\* a handler whose hook returns another level and another time has written a
\* record of two lines with a time: each line starts with the other time in
\* the format of the handler and with the label of the other level
C19_Witness ==
    \E c \in 1..Len(returned) :
        /\ Returned(c)
        /\ handlers[returned[c].h].replaceAttr = "fixed"
        /\ returned[c].rec.Time = 1
        /\ returned[c].rec.Level # LevelWarn
        /\ Len(Lines(returned[c].rec.Message)) = 2
        /\ Len(returned[c].hooked) >= 2
        /\ IsPrefix(RFC3339(2) \o <<SP, "W", "R", "N", SP>>, writes[c][1].arg)

\* the values written in block for the attributes of key
ValuesOf(pairs, key) ==
    [i \in DOMAIN SelectSeq(pairs, LAMBDA x : x.key = key) |->
        SelectSeq(pairs, LAMBDA x : x.key = key)[i].val]

\* C20: in every block written by a handler of the plain style, an attribute of
\* the record whose value is a time is written in the time format the handler
\* was made with, the format of the record's own time.
C20_TimeAttrInHandlerFormat ==
    \A c \in 1..Len(writes) : \A k \in 1..Len(writes[c]) :
        \A i \in DOMAIN returned[c].rec.Attrs :
            /\ returned[c].rec.Attrs[i].Value.Kind = "Time"
            /\ handlers[returned[c].h].style = PlainStyle
            => ValuesOf(Bare(Pairs(writes[c][k].arg)), returned[c].rec.Attrs[i].Key)
                   = <<TimeFormat(returned[c].rec.Attrs[i].Value.V[1],
                                  handlers[returned[c].h].timeFormat)>>

\* every mutex there is before a step is held after it by whoever held it before
SameHolders == \A k \in DOMAIN mem.mu : mem'.mu[k] = mem.mu[k]

\* a handler was made or a query was answered in the step
DerivedOrQueried == Len(handlers') > Len(handlers) \/ (lastCall' # lastCall /\ lastCall' # NoCall)

\* a goroutine holds a mutex only inside the one Write of its call, on a
\* handler with that mutex, and a goroutine inside Write holds the mutex
LockedInsideWrite ==
    /\ \A k \in DOMAIN mem.mu :
           mem.mu[k] # NoOne =>
               /\ gor[mem.mu[k]].pc = "writing"
               /\ handlers[gor[mem.mu[k]].h].outMu = k
               /\ Len(writes[gor[mem.mu[k]].call]) = 1
               /\ writes[gor[mem.mu[k]].call][1].err = "pending"
    /\ \A g \in Goroutines :
           gor[g].pc = "writing" => mem.mu[handlers[gor[g].h].outMu] = g

\* while a goroutine is inside Write, every derivation and every query on
\* every handler can be made (WithAttrs is in C21_Witness and in the steps)
NothingWaits ==
    (\E g \in Goroutines : gor[g].pc = "writing") =>
        \A p \in 1..Len(handlers) :
            /\ ENABLED WithGroupCall(p, <<"g">>)
            /\ ENABLED WithLevelCall(p, LevelDebug)
            /\ ENABLED SetPrefixCall(p, <<"p">>)
            /\ ENABLED WithLevelOffsetCall(p, -4)
            /\ lastCall = NoCall =>
                   /\ ENABLED EnabledCall(p, LevelInfo)
                   /\ ENABLED PrefixCall(p)
                   /\ ENABLED LevelOffsetCall(p)

\* C21: a mutex is held only by a goroutine inside the one Write of its call.
\* The block is complete when the mutex is taken: the step that takes it
\* passes to Write the block rendered before, and no step changes the bytes
\* of a block that is formatted or being written.  A step that makes a handler
\* (WithAttrs, WithGroup, WithLevel, SetPrefix, WithLevelOffset) or answers a
\* query (Enabled, Prefix, LevelOffset) leaves every mutex with its holder,
\* and can be made while a goroutine is inside Write.
C21_LockOnlyAroundWrite ==
    /\ [](LockedInsideWrite /\ NothingWaits)
    /\ [][ /\ DerivedOrQueried => SameHolders
           /\ \A g \in Goroutines :
                  /\ (gor[g].pc = "idle" /\ gor'[g].pc # "idle") =>
                         /\ SameHolders
                         /\ gor'[g].pc = "formatted"
                         /\ gor'[g].block = Rendered(gor'[g].h, gor'[g].rec)
                  /\ gor[g].pc = "formatted" =>
                         /\ gor'[g].pc \in {"formatted", "writing"}
                         /\ SliceVal(mem'.bytes, gor'[g].bs) = gor[g].block
                         /\ gor'[g].pc = "writing" =>
                                writes'[gor[g].call] = <<[w |-> handlers[gor[g].h].out,
                                                         arg |-> gor[g].block,
                                                         err |-> "pending"]>>
                  /\ (gor[g].pc = "writing" /\ gor'[g].pc = "writing") =>
                         SliceVal(mem'.bytes, gor'[g].bs) = gor[g].block
         ]_vars

\* while g1 is inside Write with the mutex, a handler was made by WithAttrs
\* and Enabled was answered, and g2 has formatted a record for the new
\* handler and waits for the mutex
C21_Witness ==
    /\ Len(handlers) = 2
    /\ origin[2].op = "WithAttrs"
    /\ origin[2].held = <<"g1">>
    /\ lastCall.op = "Enabled"
    /\ lastCall.held = <<"g1">>
    /\ gor["g1"].pc = "writing"
    /\ mem.mu = <<"g1">>
    /\ gor["g2"].pc = "formatted"
    /\ gor["g2"].h = 2

\* the arrays of the buffers in the pool
Pooled == {mem.pool[k].arr : k \in DOMAIN mem.pool}

\* the arrays of the buffers the running calls of Handle hold
HeldBy(gs) == {gor[g].bs.arr : g \in gs}

\* C22: the buffer takeBuf hands out is empty, and so is the one a second
\* takeBuf hands out, which is another one.  The buffers of the pool are
\* different arrays, none of them the buffer of a call of Handle that has not
\* returned, and two such calls hold different arrays; so a call holds its
\* buffer alone from takeBuf until it has returned from Write, whichever
\* buffer of the pool a later takeBuf gets.  The attribute bytes of a handler
\* are in no pooled array.  The bytes of the buffer of a running call are the
\* block rendered for its record, and so is every block passed to Write.
C22_BuffersExclusive ==
    /\ SliceVal(takeBuf(mem).m.bytes, takeBuf(mem).buf) = <<>>
    /\ SliceVal(takeBuf(takeBuf(mem).m).m.bytes, takeBuf(takeBuf(mem).m).buf) = <<>>
    /\ takeBuf(takeBuf(mem).m).buf.arr # takeBuf(mem).buf.arr
    /\ takeBuf(mem).buf.arr \notin HeldBy(Running)
    /\ Cardinality(Pooled) = Len(mem.pool)
    /\ Pooled \cap HeldBy(Running) = {}
    /\ Cardinality(HeldBy(Running)) = Cardinality(Running)
    /\ \A g \in Running :
           /\ gor[g].bs.arr[1] = "pb"
           /\ SliceVal(mem.bytes, gor[g].bs) = gor[g].block
           /\ gor[g].block = Rendered(gor[g].h, gor[g].rec)
    /\ \A i \in 1..Len(handlers) :
           /\ handlers[i].attrs.arr[1] # "pb"
           /\ handlers[i].attrs.arr \notin Pooled \cup HeldBy(Running)
    /\ \A c \in 1..Len(writes) : \A k \in 1..Len(writes[c]) :
           writes[c][k].arg = Rendered(returned[c].h, returned[c].rec)

\* g1 is inside Write with the first buffer; WithAttrs made a handler
\* meanwhile, serializing a value into the second buffer, which g2 then took
\* for the block of a record for that handler; a third buffer is in the pool
C22_Witness ==
    /\ gor["g1"].pc = "writing"
    /\ gor["g1"].bs.arr = <<"pb", 1>>
    /\ Len(handlers) = 2
    /\ origin[2].op = "WithAttrs"
    /\ origin[2].held = <<"g1">>
    /\ gor["g2"].pc = "formatted"
    /\ gor["g2"].h = 2
    /\ gor["g2"].bs.arr = <<"pb", 2>>
    /\ Pooled = {<<"pb", 3>>}
    /\ gor["g2"].block # gor["g1"].block

\* attr inside groups of the names of path, outermost first
RECURSIVE Wrap(_, _)
Wrap(path, attr) ==
    IF path = <<>> THEN attr
    ELSE Attr(Head(path), GroupValue(<<Wrap(Tail(path), attr)>>))

\* the attributes of as that are not groups, each inside groups of its own
Wrapped(as) ==
    [j \in DOMAIN Pathed(<<>>, as) |->
        Wrap(Pathed(<<>>, as)[j].path, Pathed(<<>>, as)[j].attr)]

\* the bytes in the buffer of f once the first n of the attributes ws are formatted
BufAfter(f, ws, n) ==
    SliceVal(FormatAttrs(f, SubSeq(ws, 1, n)).m.bytes,
             FormatAttrs(f, SubSeq(ws, 1, n)).buf)

\* the separator to expect behind the bytes b
Separator(b) ==
    IF b = <<>> THEN <<>>
    ELSE IF Last(b) = NL THEN <<SP, SP>>
    ELSE IF Last(b) = SP THEN <<>>
    ELSE <<SP>>

SingleLine(attr) == ~ContainsAny(attr.Value.V, {CR, NL})

\* how the attribute p starts in plain style: a value of several lines on a
\* line of its own, then the key behind the names of the groups, and "="
LeadOf(groups, p) ==
    (IF SingleLine(p.attr) THEN <<>> ELSE <<NL, SP, SP>>)
    \o Dotted(groups \o p.path, p.attr.Key) \o <<"=">>

\* text holds, for every attribute of as, what the buffer of f held before
\* the attribute, the separator for that, and the start of the attribute;
\* two attributes of one line each have one space between them, and behind
\* an attribute of several lines the buffer ends with a line terminator
SeparatedIn(f, groups, as, text) ==
    \A j \in DOMAIN Pathed(<<>>, as) :
        /\ IsPrefix(BufAfter(f, Wrapped(as), j - 1)
                        \o Separator(BufAfter(f, Wrapped(as), j - 1))
                        \o LeadOf(groups, Pathed(<<>>, as)[j]),
                    text)
        /\ ~SingleLine(Pathed(<<>>, as)[j].attr) =>
               Last(BufAfter(f, Wrapped(as), j)) = NL
        /\ ( /\ j > 1
             /\ SingleLine(Pathed(<<>>, as)[j].attr)
             /\ SingleLine(Pathed(<<>>, as)[j - 1].attr)
             /\ Pathed(<<>>, as)[j - 1].attr.Value.V # <<>>
             /\ Last(Pathed(<<>>, as)[j - 1].attr.Value.V) # SP )
            => IsPrefix(BufAfter(f, Wrapped(as), j - 2)
                            \o Separator(BufAfter(f, Wrapped(as), j - 2))
                            \o LeadOf(groups, Pathed(<<>>, as)[j - 1])
                            \o Pathed(<<>>, as)[j - 1].attr.Value.V
                            \o <<SP>>
                            \o LeadOf(groups, Pathed(<<>>, as)[j]),
                        text)

\* C23: every attribute written starts behind what the buffer held before it
\* and one separator chosen by the last byte of that: two spaces of
\* indentation behind a line terminator, one space behind a byte that is
\* neither a space nor a line terminator, nothing behind a space or in an
\* empty buffer.  This holds in the blocks Handle writes and in the attribute
\* bytes WithAttrs makes.  So two attributes of one line each are one space
\* apart, the first attribute behind the two spaces that end the message has
\* no space of its own, and an attribute behind a value of several lines
\* starts on a new line behind two spaces.
C23_SeparatorByLastByte ==
    /\ \A c \in 1..Len(writes) : \A k \in 1..Len(writes[c]) :
           /\ SeparatedIn(PutHead(BufFormatter(takeBuf(mem), handlers[returned[c].h]),
                                  handlers[returned[c].h], returned[c].rec),
                          View(mem, handlers[returned[c].h]).groups,
                          returned[c].rec.Attrs,
                          writes[c][k].arg)
           /\ ( /\ View(mem, handlers[returned[c].h]).attrs = <<>>
                /\ Pathed(<<>>, returned[c].rec.Attrs) # <<>>
                /\ SingleLine(Pathed(<<>>, returned[c].rec.Attrs)[1].attr) )
               => IsPrefix(HeadedLines(handlers[returned[c].h], returned[c].rec,
                                       Lines(returned[c].rec.Message))
                               \o <<SP, SP>>
                               \o LeadOf(View(mem, handlers[returned[c].h]).groups,
                                         Pathed(<<>>, returned[c].rec.Attrs)[1]),
                           writes[c][k].arg)
    /\ \A i \in 1..Len(handlers) :
           origin[i].op = "WithAttrs" =>
               SeparatedIn(CloneFormatter(
                               BytesClone(mem, "hb", handlers[origin[i].parent].attrs),
                               handlers[origin[i].parent]),
                           origin[i].from[1].groups,
                           origin[i].arg,
                           origin[i].made.attrs)

\* a handler that carries a=1, b=2 and b=3 wrote a record with a group that
\* holds a value of two lines and, in a group without a name, a value of one
C23_Witness ==
    \E c \in 1..Len(writes) :
        /\ Len(writes[c]) = 1
        /\ View(mem, handlers[returned[c].h]).attrs
               = <<"a", "=", "1", SP, "b", "=", "2", SP, "b", "=", "3">>
        /\ writes[c][1].arg
               = <<"I", "N", "F", SP, "m", SP, SP,
                   "a", "=", "1", SP, "b", "=", "2", SP, "b", "=", "3", SP, NL,
                   SP, SP, "h", ".", "d", "=", NL,
                   SP, SP, SP, SP, "|", SP, "x", NL,
                   SP, SP, SP, SP, "|", SP, "y", NL,
                   SP, SP, "h", ".", "e", "=", "q", NL>>

\* the attributes of as that are not groups, each under the key that names
\* the groups around it: no groups are left
Flat(as) ==
    [j \in DOMAIN Pathed(<<>>, as) |->
        Attr(Dotted(Pathed(<<>>, as)[j].path, Pathed(<<>>, as)[j].attr.Key),
             Pathed(<<>>, as)[j].attr.Value)]

\* the group stack of a formatter
StackOf(f) == SliceVal(f.m.strs, f.groups)

\* the keys of the groups among as, at any depth
RECURSIVE GroupKeys(_)
GroupKeys(as) ==
    IF as = <<>> THEN {}
    ELSE (IF Head(as).Value.Kind = "Group"
          THEN {Head(as).Key} \cup GroupKeys(Head(as).Value.V)
          ELSE {}) \cup GroupKeys(Tail(as))

\* C24: the block written for a record is the block that is rendered (in
\* plain style) for the record with every group taken apart, each member
\* under the names of its groups, a "." behind each that is not empty, and
\* its own key: a group leaves nothing of its own, a group without members
\* or with empty members only leaves nothing at all, and what follows a group
\* is not behind its name.  No key written is the key of a group.  The group
\* stack of the formatter is after every attribute of the record, group or
\* not, what it was before the first: the groups of the handler.
C24_GroupLeavesStackAsItWas ==
    \A c \in 1..Len(writes) :
        /\ \A k \in 1..Len(writes[c]) :
               /\ writes[c][k].arg
                      = RenderedBy(handlers[returned[c].h],
                                   [returned[c].rec EXCEPT !.Attrs = Flat(@)])
               /\ \A j \in DOMAIN Pairs(writes[c][k].arg) :
                      BareKey(Pairs(writes[c][k].arg)[j].key)
                          \notin GroupKeys(returned[c].rec.Attrs)
        /\ \A n \in 0..Len(returned[c].rec.Attrs) :
               StackOf(FormatAttrs(BufFormatter(takeBuf(mem), handlers[returned[c].h]),
                                   SubSeq(returned[c].rec.Attrs, 1, n)))
                   = View(mem, handlers[returned[c].h]).groups

\* a handler behind WithGroup("g") wrote a record with a group in a group, a
\* group without members, a group with an empty member only, and an attribute
\* behind them
C24_Witness ==
    \E c \in 1..Len(writes) :
        /\ Len(writes[c]) = 1
        /\ View(mem, handlers[returned[c].h]).groups = << <<"g">> >>
        /\ View(mem, handlers[returned[c].h]).attrs = <<>>
        /\ GroupKeys(returned[c].rec.Attrs) = {<<"h">>, <<"i">>, <<"n">>, <<"s">>}
        /\ writes[c][1].arg
               = <<"I", "N", "F", SP, "m", SP, SP,
                   "g", ".", "h", ".", "i", ".", "e", "=", "q", SP,
                   "g", ".", "c", "=", "3", NL>>

\* the calls of the hook to expect for the attributes as behind the groups
\* of path: one for each attribute, with its value resolved, and then, for a
\* group the hook did not drop, those for the members of what it returned
RECURSIVE Visits(_, _, _)
Visits(hook, path, as) ==
    IF as = <<>> THEN <<>>
    ELSE <<[groups |-> path, attr |-> Attr(Head(as).Key, Resolve(Head(as).Value))]>>
         \o (IF ReplaceAttr(hook, path, Attr(Head(as).Key, Resolve(Head(as).Value))).Value.Kind
                    = "Group"
              THEN Visits(hook,
                          Append(path, ReplaceAttr(hook, path,
                                                   Attr(Head(as).Key,
                                                        Resolve(Head(as).Value))).Key),
                          ReplaceAttr(hook, path,
                                      Attr(Head(as).Key, Resolve(Head(as).Value))).Value.V)
              ELSE <<>>)
         \o Visits(hook, path, Tail(as))

\* what the hook makes of one resolved attribute a behind the groups of path
RECURSIVE Replaced(_, _, _), ReplacedOne(_, _, _)
ReplacedOne(hook, path, r) ==
    IF AttrEqual(r, EmptyAttr) THEN <<>>
    ELSE IF r.Value.Kind = "Group"
    THEN <<Attr(r.Key, GroupValue(Replaced(hook, Append(path, r.Key), r.Value.V)))>>
    ELSE <<r>>

\* the attributes as with their values resolved, without those the hook
\* drops and with what the hook returns in the place of the others
Replaced(hook, path, as) ==
    IF as = <<>> THEN <<>>
    ELSE ReplacedOne(hook, path,
                     ReplaceAttr(hook, path, Attr(Head(as).Key, Resolve(Head(as).Value))))
         \o Replaced(hook, path, Tail(as))

\* the calls of the hook that were not made for the level or the time
AttrCalls(hooked) == SelectSeq(hooked, LAMBDA x : x.attr.Key \notin {LevelKey, TimeKey})

\* h without its hook
Unhooked(h) == [h EXCEPT !.replaceAttr = "nil"]

\* C25: a call of Handle on a handler with a hook calls the hook, beside the
\* calls for the level and the time, once for every attribute of the record
\* in order, a group before its members and the members of a group the hook
\* dropped not at all, each time with the value resolved and with the groups
\* of the handler followed by the keys of the groups around the attribute;
\* WithAttrs makes the same calls for its attributes.  What is written is
\* what a handler without the hook writes for the attributes the hook
\* returned: nothing, and no delimiter, for an attribute or a group the hook
\* dropped, and the other attribute where it returned another.
C25_HookForEveryAttr ==
    /\ \A c \in 1..Len(returned) :
           handlers[returned[c].h].replaceAttr # "nil" =>
               /\ AttrCalls(returned[c].hooked)
                      = Visits(handlers[returned[c].h].replaceAttr,
                               View(mem, handlers[returned[c].h]).groups,
                               returned[c].rec.Attrs)
               /\ \A k \in 1..Len(writes[c]) :
                      writes[c][k].arg
                          = RenderedBy(Unhooked(handlers[returned[c].h]),
                                       [returned[c].rec EXCEPT !.Attrs =
                                           Replaced(handlers[returned[c].h].replaceAttr,
                                                    View(mem, handlers[returned[c].h]).groups,
                                                    @)])
    /\ \A i \in 1..Len(handlers) :
           (origin[i].op = "WithAttrs" /\ handlers[i].replaceAttr # "nil") =>
               /\ FormatAttrs(CloneFormatter(
                                  BytesClone(mem, "hb", handlers[origin[i].parent].attrs),
                                  handlers[origin[i].parent]),
                              origin[i].arg).m.hooked
                      = Visits(handlers[i].replaceAttr, origin[i].from[1].groups,
                               origin[i].arg)
               /\ origin[i].made.attrs
                      = AttrsMade(WithAttrs(mem, Unhooked(handlers[origin[i].parent]),
                                            Replaced(handlers[i].replaceAttr,
                                                     origin[i].from[1].groups,
                                                     origin[i].arg)))

\* a handler with the hook "edit", behind WithGroup("h"), wrote the record
\* with the groups h and n and the attribute e: the hook was called for h,
\* for its members e and d behind the groups h and h, for n and not for its
\* member, and for e behind the group h of the handler; both e were replaced,
\* d was replaced by r, and n was dropped with its member
C25_Witness ==
    \E c \in 1..Len(returned) :
        /\ Returned(c)
        /\ handlers[returned[c].h].replaceAttr = "edit"
        /\ View(mem, handlers[returned[c].h]).groups = << <<"h">> >>
        /\ Len(AttrCalls(returned[c].hooked)) = 5
        /\ AttrCalls(returned[c].hooked)[3]
               = [groups |-> << <<"h">>, <<"h">> >>,
                  attr |-> Attr(<<"d">>, StringValue(<<"x">>))]
        /\ writes[c][1].arg
               = <<"I", "N", "F", SP, "m", SP, SP,
                   "h", ".", "h", ".", "e", "=", "w", SP,
                   "h", ".", "h", ".", "r", "=", "z", SP,
                   "h", ".", "e", "=", "w", NL>>

\* attribute sequences to attach or to log: none, an empty attribute before
\* another, a value of several lines, a group before an attribute
SomeAttrs ==
    { <<>>,
      <<EmptyAttr, Attr(<<"a">>, StringValue(<<"1">>))>>,
      <<Attr(<<"u">>, StringValue(<<"x", NL, "y", NL>>))>>,
      <<Attr(<<"h">>, GroupValue(<<Attr(<<"e">>, StringValue(<<"q">>))>>)),
        Attr(<<"c">>, StringValue(<<"3">>))>> }

\* the block the handler and heap r render for rec with the attributes as
BlockWith(r, rec, as) == BlockOf(HandleFormat(r.m, r.h, [rec EXCEPT !.Attrs = as]))

\* C26: for every handler h, with or without hook, groups and attributes of
\* its own, and attribute sequences A and B: h.WithAttrs(A) renders a record
\* with the attributes B as h renders it with A followed by B, and
\* h.WithAttrs(A).WithAttrs(B) holds the attribute bytes of, and renders as,
\* h.WithAttrs(A followed by B).  Every block written by a handler that
\* WithAttrs made is the block its parent renders for the record with the
\* attached attributes before the record's.
C26_WithAttrsAsRecordAttrs ==
    /\ \A i \in 1..Len(handlers) : \A A \in SomeAttrs, B \in SomeAttrs :
           \A rec \in {Rec(LevelInfo, 1, <<"a", NL, "b">>, <<>>), Rec(LevelWarn, 0, <<>>, <<>>)} :
               /\ BlockWith(WithAttrs(mem, handlers[i], A), rec, B)
                      = BlockWith([m |-> mem, h |-> handlers[i]], rec, A \o B)
               /\ AttrsMade(WithAttrs(WithAttrs(mem, handlers[i], A).m,
                                       WithAttrs(mem, handlers[i], A).h, B))
                      = AttrsMade(WithAttrs(mem, handlers[i], A \o B))
               /\ BlockWith(WithAttrs(WithAttrs(mem, handlers[i], A).m,
                                       WithAttrs(mem, handlers[i], A).h, B), rec, <<>>)
                      = BlockWith(WithAttrs(mem, handlers[i], A \o B), rec, <<>>)
    /\ \A c \in 1..Len(writes) : \A k \in 1..Len(writes[c]) :
           origin[returned[c].h].op = "WithAttrs" =>
               writes[c][k].arg
                   = BlockWith([m |-> mem, h |-> handlers[origin[returned[c].h].parent]],
                               returned[c].rec,
                               origin[returned[c].h].arg \o returned[c].rec.Attrs)

\* a handler WithAttrs made of a handler with the hook "edit" wrote a record
\* with groups, and the block is not the one its parent renders for the
\* record alone
C26_Witness ==
    \E c \in 1..Len(writes) :
        /\ Len(writes[c]) = 1
        /\ origin[returned[c].h].op = "WithAttrs"
        /\ handlers[returned[c].h].replaceAttr = "edit"
        /\ GroupKeys(returned[c].rec.Attrs) # {}
        /\ writes[c][1].arg
               = BlockWith([m |-> mem, h |-> handlers[origin[returned[c].h].parent]],
                           returned[c].rec,
                           origin[returned[c].h].arg \o returned[c].rec.Attrs)
        /\ writes[c][1].arg # Rendered(origin[returned[c].h].parent, returned[c].rec)

\* the handler h with the hook hook in place of its own
Rehooked(h, hook) == [h EXCEPT !.replaceAttr = hook]

\* C27: for every handler, whatever its offset, prefix, groups and
\* attributes, and every record, the block written with the hook that
\* returns every attribute unchanged is the block the same handler writes
\* with no hook.
C27_IdentityHookUnobservable ==
    \A i \in 1..Len(handlers) : \A rec \in FmtRecs :
        RenderedBy(Rehooked(handlers[i], "identity"), rec)
            = RenderedBy(Rehooked(handlers[i], "nil"), rec)

\* the event rec as the offset of h moves it, and h without its offset
Moved(h, rec) == [rec EXCEPT !.Level = @ + h.lvlOffset]

Unmoved(h) == [h EXCEPT !.lvlOffset = 0]

\* C28: the label and the style of the message are both the ones of the
\* event's level plus the handler's offset: a handler with an offset renders
\* an event as the same handler without offset renders the event at the
\* level the offset moves it to.
C28_MessageStyleOfMovedLevel ==
    \A i \in 1..Len(handlers) : \A rec \in FmtRecs :
        RenderedBy(handlers[i], rec) = RenderedBy(Unmoved(handlers[i]), Moved(handlers[i], rec))

\* where the first run of two spaces starts in block, 0 if there is none
FirstGap(block) ==
    IF \E k \in 1..(Len(block) - 1) : block[k] = SP /\ block[k + 1] = SP
    THEN CHOOSE k \in 1..(Len(block) - 1) :
             /\ block[k] = SP /\ block[k + 1] = SP
             /\ \A j \in 1..(k - 1) : ~(block[j] = SP /\ block[j + 1] = SP)
    ELSE 0

\* the attribute tail of a block: the two-space separator and all behind it,
\* or the line terminator alone when the block has no separator
TailOf(block) ==
    IF FirstGap(block) = 0 THEN <<NL>>
    ELSE SubSeq(block, FirstGap(block), Len(block))

\* the block of rec is the attribute tail of the block h renders for the
\* same record with the message "m", and nothing else
OnlyTail(h, rec) ==
    /\ RenderedBy(h, rec) = TailOf(RenderedBy(h, [rec EXCEPT !.Message = <<"m">>]))
    /\ \/ RenderedBy(h, rec) = <<NL>>
       \/ SubSeq(RenderedBy(h, rec), 1, 2) = msgAttrDelim

\* C29: for a record with an empty message the block has no time, label or
\* prefix: it is the attribute tail (the two-space separator, then the
\* handler's and the record's attributes), or a single line terminator when
\* no attribute is rendered.  A Handle of such a record makes its one Write
\* of that block and returns what the Write returned.
C29_EmptyMessageNoHeader ==
    /\ \A i \in 1..Len(handlers) : \A rec \in FmtRecs :
           rec.Message = <<>> => OnlyTail(handlers[i], rec)
    /\ \A c \in 1..Len(returned) :
           returned[c].rec.Message = <<>> /\ returned[c].res # <<>> =>
               /\ Len(writes[c]) = 1
               /\ writes[c][1].arg = Rendered(returned[c].h, returned[c].rec)
               /\ OnlyTail(handlers[returned[c].h], returned[c].rec)
               /\ returned[c].res = <<"nil">>

\* a handler with a prefix and a hook has returned from a record with a
\* time, an attribute and no message, having written the attribute alone
C29_Witness ==
    \E c \in 1..Len(returned) :
        /\ returned[c].rec.Message = <<>>
        /\ returned[c].rec.Time # 0
        /\ returned[c].res = <<"nil">>
        /\ handlers[returned[c].h].prefix # <<>>
        /\ handlers[returned[c].h].replaceAttr = "fixed"
        /\ Len(writes[c]) = 1
        /\ writes[c][1].arg = <<SP, SP, "k", "=", "v", NL>>

\* no mutex is held unless a goroutine is inside the Write of a Handle on a
\* handler with that mutex
LockFreeOutsideWrite ==
    \A k \in DOMAIN mem.mu :
        mem.mu[k] # NoOne =>
            \E g \in Goroutines : /\ gor[g].pc = "writing"
                                   /\ handlers[gor[g].h].outMu = k
                                   /\ mem.mu[k] = g

\* C30: when every Write returns and the scheduling is fair, every Handle
\* that has started returns, whatever other Handle calls, derivations and
\* queries on handlers of the same root run beside it, and at all times a
\* mutex is held only while a Handle is inside its Write.
C30_EveryHandleReturns ==
    /\ \A g \in Goroutines : (gor[g].pc # "idle") ~> (gor[g].pc = "idle")
    /\ \A c \in 1..MaxCalls : (Len(returned) >= c) ~> (Len(returned) >= c /\ returned[c].res # <<>>)
    /\ []LockFreeOutsideWrite

\* two Handle calls on handlers with one mutex have both returned, one with
\* the error of its Write; the call that started second wrote first, so the
\* first waited for the mutex; no mutex is held and no goroutine is in Handle
C30_Witness ==
    /\ Len(returned) = 2
    /\ returned[1].res = <<"EIO">>
    /\ returned[2].res = <<"nil">>
    /\ returned[1].h # returned[2].h
    /\ handlers[returned[1].h].outMu = handlers[returned[2].h].outMu
    /\ Len(out[handlers[returned[1].h].out]) >= 1
    /\ out[handlers[returned[1].h].out][1].call = 2
    /\ \A k \in DOMAIN mem.mu : mem.mu[k] = NoOne
    /\ \A g \in Goroutines : gor[g].pc = "idle"

====
